---- MODULE Spec2Model ----
(***************************************************************************)
(* Model of the execution-chain head synchronisation of eth-analysis-rs    *)
(* (src/execution_chain/sync.rs) and of the burn-sum aggregation it        *)
(* drives (src/burn_sums/mod.rs).                                          *)
(*                                                                         *)
(* Blocks live in a binary tree of hashes: hash 1 is the origin block, the *)
(* children of hash h are 2h and 2h+1, so a hash fixes its block's number  *)
(* and parent hash, and two children of one parent are a fork.  Hash 0 is  *)
(* the parent hash of the origin block and names no block.  The node's      *)
(* blocks are those of the first-child chain and of the chains that fork   *)
(* off it once: any three chains, forking from each other at any two       *)
(* heights, are among them.  Blocks of the first-child chain are           *)
(* BlockSeconds apart, blocks of a forked chain half of that, so that a    *)
(* window of time does not hold the same block numbers on every chain.     *)
(***************************************************************************)
EXTENDS Integers, Sequences, FiniteSets, TLC

\* Highest block number the node ever produces.
MaxHeight == 4

\* Seconds between a block and its child.
BlockSeconds == 120

\* How many block numbers back delete_old_sums keeps burn sums.
KeepSums == 2


VARIABLES
    block_store,   \* BlockStore: the set of stored blocks
    heads_queue,   \* HeadsQueue: VecDeque<HeadToSync>, front is index 1
    pc,            \* position of sync_blocks: "start", "await_stream", "drain",
                   \* "panicked"
    node_chain,    \* NoHash while the node's chain is free to move between any two
                   \* requests; the hash of its latest block once the chain stays put
    burn_sums,     \* BurnSumStore: the set of stored BurnSumRecords
    last_step,     \* what the last sync_head call of the running drain did (history)
    notif,         \* the last head notification and the store it met (history)
    heads_stream,  \* the historic heads stream_heads_from still has to deliver
    call,          \* the last application of a pure function: its name, its
                   \* arguments and what it gave
    pass,          \* on_new_block: where it is, its block and its records
    cache,         \* what update_and_publish has published last, by cache key
    id_pool,       \* IdPool of the ExecutionNode
    message_rx_map,\* MessageHandlers: the senders waiting for a response, by id
    callers,       \* the tasks inside ExecutionNode::call
    ws,            \* the requests the node has received and not answered
    handler,       \* handle_messages: where it is and the message it has read
    eth_supply     \* eth_supply::update: where it is, the eth_supply table and the
                   \* cache values it writes

\* The variables of the synchronisation, and the ones it leaves alone.
sync_vars == <<block_store, heads_queue, pc, node_chain, burn_sums, last_step, notif,
               heads_stream>>
pass_vars == <<pass, cache>>
node_vars == <<id_pool, message_rx_map, callers, ws, handler>>
supply_vars == <<eth_supply>>
other_vars == <<call, pass_vars, node_vars, supply_vars>>
vars == <<sync_vars, other_vars>>

----------------------------------------------------------------------------
\* Blocks and heads as the node reports them.

NoHash == 0

RECURSIVE Pow2(_)
Pow2(n) == IF n = 0 THEN 1 ELSE 2 * Pow2(n - 1)

RECURSIVE Turns(_)
Turns(h) == IF h <= 1 THEN 0 ELSE (h % 2) + Turns(h \div 2)

Hashes == {h \in 1..(Pow2(MaxHeight + 1) - 1) : Turns(h) <= 1}

Number[h \in 0..(Pow2(MaxHeight + 1) - 1)] ==
    IF h <= 1 THEN 0 ELSE 1 + Number[h \div 2]

NumberOf(h) == Number[h]

ParentOf(h) == h \div 2

\* ExecutionNodeBlock: timestamp in seconds after the origin block's.  Blocks of
\* the first-child chain follow their parent by BlockSeconds, blocks of a chain
\* that forked off it by half of that, so that chains differ in their times.
Timestamp[h \in 0..(Pow2(MaxHeight + 1) - 1)] ==
    IF h <= 1 THEN 0
    ELSE Timestamp[h \div 2]
         + (IF Turns(h) = 0 THEN BlockSeconds ELSE BlockSeconds \div 2)

TimestampOf(h) == Timestamp[h]

\* ExecutionNodeBlock: base_fee_per_gas * gas_used in wei.
BurnOf(h) == h

\* ExecutionNodeBlock / Head: the fields the synchronisation reads.
BlockOf(h) == [number |-> NumberOf(h), hash |-> h, parent_hash |-> ParentOf(h)]

RECURSIVE AncestorAt(_, _)
AncestorAt(h, n) == IF NumberOf(h) <= n THEN h ELSE AncestorAt(ParentOf(h), n)

\* The blocks of the chain ending in h.
ChainOf(h) == {BlockOf(AncestorAt(h, n)) : n \in 0..NumberOf(h)}

\* Option<T> as a set with at most one element.
None == {}
Some(x) == {x}

\* The latest blocks the node may have at the time of a request.
NodeLatest == IF node_chain = NoHash THEN Hashes ELSE {node_chain}

\* ExecutionNode::get_latest_block, on the chain ending in latest
get_latest_block(latest) == BlockOf(latest)

\* ExecutionNode::get_block_by_number, on the chain ending in latest: the
\* canonical block at that number, if any.
get_block_by_number(latest, number) ==
    IF number <= NumberOf(latest)
    THEN Some(BlockOf(AncestorAt(latest, number)))
    ELSE None

\* ExecutionNode::get_block_by_hash, on the chain ending in latest: a canonical
\* block is served; a block off the chain may or may not be (the node is free to
\* forget it).
get_block_by_hash(latest, hash) ==
    IF AncestorAt(latest, NumberOf(hash)) = hash
    THEN {Some(BlockOf(hash))}
    ELSE {Some(BlockOf(hash)), None}

----------------------------------------------------------------------------
\* BlockStore

get_is_parent_hash_known(store, parent_hash) ==
    \E b \in store : b.hash = parent_hash

get_is_number_known(store, number) ==
    \E b \in store : b.number = number

Max(S) == CHOOSE x \in S : \A y \in S : y <= x

Min2(a, b) == IF a <= b THEN a ELSE b

get_last_block_number(store) ==
    IF store = {} THEN None ELSE Some(Max({b.number : b \in store}))

store_block(store, block) == store \cup {block}

delete_blocks(store, greater_than_or_equal) ==
    {b \in store : b.number < greater_than_or_equal}

----------------------------------------------------------------------------
\* time_frames.rs and burn_sums/mod.rs

GrowingTimeFrames == {"since_burn", "since_merge"}
LimitedTimeFrames == {"d30", "d7", "d1", "h1", "m5"}
TimeFrames == GrowingTimeFrames \cup LimitedTimeFrames

\* impl From<LimitedTimeFrame> for Duration, in seconds
duration(limited_time_frame) ==
    CASE limited_time_frame = "d1" -> 86400
      [] limited_time_frame = "d30" -> 30 * 86400
      [] limited_time_frame = "d7" -> 7 * 86400
      [] limited_time_frame = "h1" -> 3600
      [] limited_time_frame = "m5" -> 300

Min(S) == CHOOSE x \in S : \A y \in S : x <= y

RECURSIVE SumBurn(_)
SumBurn(blocks) ==
    IF blocks = {} THEN 0
    ELSE LET b == CHOOSE x \in blocks : TRUE
         IN BurnOf(b.hash) + SumBurn(blocks \ {b})

\* BlockRange::new: None stands for the panic on a negative range.
BlockRange_new(greater_than_or_equal, less_than_or_equal) ==
    IF greater_than_or_equal > less_than_or_equal THEN None
    ELSE Some([start |-> greater_than_or_equal, end |-> less_than_or_equal])

\* BlockStore::first_number_after_or_at
first_number_after_or_at(store, timestamp) ==
    LET numbers == {b.number : b \in {x \in store : TimestampOf(x.hash) >= timestamp}}
    IN IF numbers = {} THEN None ELSE Some(Min(numbers))

\* BurnSumStore::burn_sum_from_block_range
burn_sum_from_block_range(store, range) ==
    SumBurn({b \in store : range.start <= b.number /\ b.number <= range.end})

\* BurnSumStore::last_burn_sum
last_burn_sum(sums, time_frame) ==
    LET of_frame == {r \in sums : r.time_frame = time_frame}
    IN IF of_frame = {} THEN None
       ELSE Some(CHOOSE r \in of_frame : \A o \in of_frame :
                    o.last_included_block_number <= r.last_included_block_number)

\* BurnSumStore::store_burn_sums
store_burn_sums(sums, records) ==
    {r \in sums : ~\E n \in records :
        /\ n.time_frame = r.time_frame
        /\ n.last_included_block_number = r.last_included_block_number} \cup records

\* BurnSumStore::delete_old_sums
delete_old_sums(sums, block_number) ==
    {r \in sums : r.last_included_block_number > block_number - KeepSums}

\* BurnSumStore::delete_new_sums_tx
delete_new_sums_tx(sums, block_number_gte) ==
    {r \in sums : r.last_included_block_number < block_number_gte}

\* on_rollback, lines 91-93
on_rollback(sums, block_number_gte) == delete_new_sums_tx(sums, block_number_gte)

\* BlockRange::from_last_plus_time_frame: a growing time frame starts at its
\* origin block, a limited one at the first block inside the window.
from_last_plus_time_frame(store, block, time_frame) ==
    IF time_frame \in GrowingTimeFrames
    THEN BlockRange_new(0, block.number)
    ELSE LET first == first_number_after_or_at(
                          store, TimestampOf(block.hash) - duration(time_frame))
         IN IF first = None THEN None
            ELSE BlockRange_new(Min(first), block.number)

\* Mutant: the record carries the timestamp of the first included block.
BurnSumRecord_first_timestamp(time_frame, first, block, sum_wei) ==
    [time_frame |-> time_frame,
     first_included_block_number |-> first,
     last_included_block_number |-> block.number,
     last_included_block_hash |-> block.hash,
     sum_wei |-> sum_wei,
     timestamp |-> TimestampOf(block.hash) - BlockSeconds * (block.number - first)]

BurnSumRecord(time_frame, first, block, sum_wei) ==
    [time_frame |-> time_frame,
     first_included_block_number |-> first,
     last_included_block_number |-> block.number,
     last_included_block_hash |-> block.hash,
     sum_wei |-> sum_wei,
     timestamp |-> TimestampOf(block.hash)]

\* Mutant: the expired range runs up to the new first included block itself.
expired_burn_from_inclusive(store, last_sum, block, limited_time_frame) ==
    LET age_limit == TimestampOf(block.hash) - duration(limited_time_frame)
        first_option == first_number_after_or_at(store, age_limit)
    IN IF first_option = None THEN [status |-> "panic", first |-> 0, wei |-> 0]
       ELSE LET first == Min(first_option) IN
            IF first < last_sum.first_included_block_number
            THEN [status |-> "panic", first |-> 0, wei |-> 0]
            ELSE IF first = last_sum.first_included_block_number
            THEN [status |-> "none", first |-> 0, wei |-> 0]
            ELSE [status |-> "some", first |-> first,
                  wei |-> burn_sum_from_block_range(store,
                            [start |-> last_sum.first_included_block_number,
                             end |-> first])]

\* Mutant: the age limit is the block's own timestamp, the duration is left out.
expired_burn_from_no_duration(store, last_sum, block, limited_time_frame) ==
    LET age_limit == TimestampOf(block.hash)
        first_option == first_number_after_or_at(store, age_limit)
    IN IF first_option = None THEN [status |-> "panic", first |-> 0, wei |-> 0]
       ELSE LET first == Min(first_option) IN
            IF first < last_sum.first_included_block_number
            THEN [status |-> "panic", first |-> 0, wei |-> 0]
            ELSE IF first = last_sum.first_included_block_number
            THEN [status |-> "none", first |-> 0, wei |-> 0]
            ELSE [status |-> "some", first |-> first,
                  wei |-> burn_sum_from_block_range(store,
                            [start |-> last_sum.first_included_block_number,
                             end |-> first - 1])]

\* Mutant: a first included number below the last sum's is taken as unchanged.
expired_burn_from_no_regression_check(store, last_sum, block, limited_time_frame) ==
    LET age_limit == TimestampOf(block.hash) - duration(limited_time_frame)
        first_option == first_number_after_or_at(store, age_limit)
    IN IF first_option = None THEN [status |-> "panic", first |-> 0, wei |-> 0]
       ELSE LET first == Min(first_option) IN
            IF first <= last_sum.first_included_block_number
            THEN [status |-> "none", first |-> 0, wei |-> 0]
            ELSE [status |-> "some", first |-> first,
                  wei |-> burn_sum_from_block_range(store,
                            [start |-> last_sum.first_included_block_number,
                             end |-> first - 1])]

\* expired_burn_from, lines 95-146: "panic", "none", or the new first included
\* number with the burn that expired.
expired_burn_from(store, last_sum, block, limited_time_frame) ==
    LET age_limit == TimestampOf(block.hash) - duration(limited_time_frame)
        first_option == first_number_after_or_at(store, age_limit)
    IN IF first_option = None THEN [status |-> "panic", first |-> 0, wei |-> 0]
       ELSE LET first == Min(first_option) IN
            IF first < last_sum.first_included_block_number
            THEN [status |-> "panic", first |-> 0, wei |-> 0]
            ELSE IF first = last_sum.first_included_block_number
            THEN [status |-> "none", first |-> 0, wei |-> 0]
            ELSE [status |-> "some", first |-> first,
                  wei |-> burn_sum_from_block_range(store,
                            [start |-> last_sum.first_included_block_number,
                             end |-> first - 1])]

\* calc_new_burn_sum_record_from_scratch, lines 148-165
calc_new_burn_sum_record_from_scratch(store, block, time_frame) ==
    LET range_option == from_last_plus_time_frame(store, block, time_frame)
    IN IF range_option = None THEN None
       ELSE LET range == CHOOSE r \in range_option : TRUE
            IN Some([BurnSumRecord(time_frame, range.start, block,
                                   burn_sum_from_block_range(store, range))
                     EXCEPT !.last_included_block_number = range.end])

\* Mutant: the first included number stays where the last sum had it.
calc_new_burn_sum_record_from_last_keep_first(store, last_sum, block, time_frame) ==
    LET range_option == BlockRange_new(last_sum.last_included_block_number + 1,
                                       block.number)
    IN IF range_option = None THEN None
       ELSE LET new_burn_range == CHOOSE r \in range_option : TRUE
                new_burn_wei == burn_sum_from_block_range(store, new_burn_range)
                expired == IF time_frame \in LimitedTimeFrames
                           THEN expired_burn_from(store, last_sum, block, time_frame)
                           ELSE [status |-> "none", first |-> 0, wei |-> 0]
            IN IF expired.status = "panic" THEN None
               ELSE Some([BurnSumRecord(
                            time_frame,
                            last_sum.first_included_block_number,
                            block,
                            IF expired.status = "some"
                            THEN new_burn_wei - expired.wei + last_sum.sum_wei
                            ELSE new_burn_wei + last_sum.sum_wei)
                          EXCEPT !.last_included_block_number = new_burn_range.end])

\* Mutant: the expired burn is not subtracted.
calc_new_burn_sum_record_from_last_keep_expired(store, last_sum, block, time_frame) ==
    LET range_option == BlockRange_new(last_sum.last_included_block_number + 1,
                                       block.number)
    IN IF range_option = None THEN None
       ELSE LET new_burn_range == CHOOSE r \in range_option : TRUE
                new_burn_wei == burn_sum_from_block_range(store, new_burn_range)
                expired == IF time_frame \in LimitedTimeFrames
                           THEN expired_burn_from(store, last_sum, block, time_frame)
                           ELSE [status |-> "none", first |-> 0, wei |-> 0]
            IN IF expired.status = "panic" THEN None
               ELSE Some([BurnSumRecord(
                            time_frame,
                            IF expired.status = "some" THEN expired.first
                            ELSE last_sum.first_included_block_number,
                            block,
                            IF expired.status = "some"
                            THEN new_burn_wei + last_sum.sum_wei
                            ELSE new_burn_wei + last_sum.sum_wei)
                          EXCEPT !.last_included_block_number = new_burn_range.end])

\* Mutant: without expired burn the last sum is not carried over.
calc_new_burn_sum_record_from_last_drop_last(store, last_sum, block, time_frame) ==
    LET range_option == BlockRange_new(last_sum.last_included_block_number + 1,
                                       block.number)
    IN IF range_option = None THEN None
       ELSE LET new_burn_range == CHOOSE r \in range_option : TRUE
                new_burn_wei == burn_sum_from_block_range(store, new_burn_range)
                expired == IF time_frame \in LimitedTimeFrames
                           THEN expired_burn_from(store, last_sum, block, time_frame)
                           ELSE [status |-> "none", first |-> 0, wei |-> 0]
            IN IF expired.status = "panic" THEN None
               ELSE Some([BurnSumRecord(
                            time_frame,
                            IF expired.status = "some" THEN expired.first
                            ELSE last_sum.first_included_block_number,
                            block,
                            IF expired.status = "some"
                            THEN new_burn_wei - expired.wei + last_sum.sum_wei
                            ELSE new_burn_wei)
                          EXCEPT !.last_included_block_number = new_burn_range.end])

\* calc_new_burn_sum_record_from_last, lines 167-222
calc_new_burn_sum_record_from_last(store, last_sum, block, time_frame) ==
    LET range_option == BlockRange_new(last_sum.last_included_block_number + 1,
                                       block.number)
    IN IF range_option = None THEN None
       ELSE LET new_burn_range == CHOOSE r \in range_option : TRUE
                new_burn_wei == burn_sum_from_block_range(store, new_burn_range)
                expired == IF time_frame \in LimitedTimeFrames
                           THEN expired_burn_from(store, last_sum, block, time_frame)
                           ELSE [status |-> "none", first |-> 0, wei |-> 0]
            IN IF expired.status = "panic" THEN None
               ELSE Some([BurnSumRecord(
                            time_frame,
                            IF expired.status = "some" THEN expired.first
                            ELSE last_sum.first_included_block_number,
                            block,
                            IF expired.status = "some"
                            THEN new_burn_wei - expired.wei + last_sum.sum_wei
                            ELSE new_burn_wei + last_sum.sum_wei)
                          EXCEPT !.last_included_block_number = new_burn_range.end])

\* calc_new_burn_sum_record, lines 224-243
calc_new_burn_sum_record(store, sums, block, time_frame) ==
    LET last_option == last_burn_sum(sums, time_frame)
    IN IF last_option = None
       THEN calc_new_burn_sum_record_from_scratch(store, block, time_frame)
       ELSE calc_new_burn_sum_record_from_last(
                store, CHOOSE r \in last_option : TRUE, block, time_frame)

\* on_new_block, lines 245-274: the burn sums after the pass, or None when the
\* calculation for some time frame panics.
on_new_block(store, sums, block) ==
    LET calculated == [tf \in TimeFrames |->
                          calc_new_burn_sum_record(store, sums, block, tf)]
    IN IF \E tf \in TimeFrames : calculated[tf] = None THEN None
       ELSE Some(delete_old_sums(
                    store_burn_sums(sums, UNION {calculated[tf] : tf \in TimeFrames}),
                    block.number))

----------------------------------------------------------------------------
\* eth_units.rs.  TLC's integers have 32 bits, the program's amounts 64 and
\* 128: the model keeps the program's arithmetic and scales the widths and the
\* units, U64Bits standing for the 64 bits of u64 and so on.

\* Bits of the u64 inside GweiNewtype.
U64Bits == 5

\* Bits of the i128 inside WeiNewtype, sign included.
I128Bits == 6

\* Gwei in one ETH (line 10) and wei in one ETH (line 14), scaled.
GWEI_PER_ETH == 10
WEI_PER_ETH == 15

U64 == 0 .. (2 ^ U64Bits - 1)
I128 == (0 - 2 ^ (I128Bits - 1)) .. (2 ^ (I128Bits - 1) - 1)

\* What a u64 and an i128 keep of a result without overflow checks.
wrapping_u64(x) == x % (2 ^ U64Bits)
wrapping_i128(x) == ((x + 2 ^ (I128Bits - 1)) % (2 ^ I128Bits)) - 2 ^ (I128Bits - 1)

\* u64::checked_add and the like: None on overflow.
checked_u64(x) == IF x \in U64 THEN {x} ELSE {}
checked_i128(x) == IF x \in I128 THEN {x} ELSE {}

\* What a call gives: a value, or a panic.
Ok(value) == [status |-> "ok", value |-> value]
Panicked == [status |-> "panic"]

\* Option::expect
expect(option) == IF option = {} THEN Panicked ELSE Ok(CHOOSE x \in option : TRUE)

\* Mutant: the sum is whatever the 64 bits keep of it.
GweiNewtype_add_wrapping(lhs, rhs) == Ok(wrapping_u64(lhs + rhs))

\* impl Add for GweiNewtype, lines 96-106
GweiNewtype_add(lhs, rhs) == expect(checked_u64(lhs + rhs))

\* impl Sub for GweiNewtype, lines 108-118
GweiNewtype_sub(lhs, rhs) == expect(checked_u64(lhs - rhs))

\* impl Add for WeiNewtype, lines 203-213
WeiNewtype_add(lhs, rhs) == expect(checked_i128(lhs + rhs))

\* impl Sub for WeiNewtype, lines 215-225
WeiNewtype_sub(lhs, rhs) == expect(checked_i128(lhs - rhs))

\* The plain `*` of Rust: a product that does not fit panics in a build with
\* overflow checks and wraps in a build without them.
unchecked_u64(x) == IF x \in U64 THEN {Ok(x)} ELSE {Panicked, Ok(wrapping_u64(x))}
unchecked_i128(x) == IF x \in I128 THEN {Ok(x)} ELSE {Panicked, Ok(wrapping_i128(x))}

\* GweiNewtype::from_eth, lines 48-50: every outcome a build can give.
GweiNewtype_from_eth(eth) == unchecked_u64(eth * GWEI_PER_ETH)

\* WeiNewtype::from_eth, lines 227-231: every outcome a build can give.
WeiNewtype_from_eth(eth) == unchecked_i128(eth * WEI_PER_ETH)

----------------------------------------------------------------------------
\* beacon_chain/issuance.rs

\* deposits::INITIAL_DEPOSITS, in gwei, scaled.
INITIAL_DEPOSITS == 5

\* Mutant: the initial deposits are not taken off.
calc_issuance_keep_initial(validator_balances_sum_gwei, deposit_sum_aggregated) ==
    GweiNewtype_sub(validator_balances_sum_gwei, deposit_sum_aggregated)

\* calc_issuance, lines 34-39
calc_issuance(validator_balances_sum_gwei, deposit_sum_aggregated) ==
    LET difference == GweiNewtype_sub(validator_balances_sum_gwei,
                                      deposit_sum_aggregated)
    IN IF difference.status = "panic" THEN Panicked
       ELSE GweiNewtype_sub(difference.value, INITIAL_DEPOSITS)

----------------------------------------------------------------------------
\* time_frames.rs: the variants and their texts.

LimitedTimeFrame == {"Day1", "Day30", "Day7", "Hour1", "Minute5"}

\* TimeFrame: All, or Limited(limited_time_frame).
All == [variant |-> "All"]
Limited(limited_time_frame) == [variant |-> "Limited", limited |-> limited_time_frame]
TimeFrame == {All} \cup {Limited(v) : v \in LimitedTimeFrame}

\* impl FromStr for LimitedTimeFrame, lines 47-61: Ok(variant) or an error.
LimitedTimeFrame_from_str(s) ==
    CASE s = "m5" -> Ok("Minute5")
      [] s = "h1" -> Ok("Hour1")
      [] s = "d1" -> Ok("Day1")
      [] s = "d7" -> Ok("Day7")
      [] s = "d30" -> Ok("Day30")
      [] OTHER -> [status |-> "err", value |-> s]

\* impl Display for LimitedTimeFrame, lines 63-74
LimitedTimeFrame_fmt(self) ==
    CASE self = "Day1" -> "d1"
      [] self = "Day30" -> "d30"
      [] self = "Day7" -> "d7"
      [] self = "Hour1" -> "h1"
      [] self = "Minute5" -> "m5"

\* LimitedTimeFrame::to_db_key, lines 107-115
LimitedTimeFrame_to_db_key(self) ==
    CASE self = "Day1" -> "d1"
      [] self = "Day30" -> "d1"
      [] self = "Day7" -> "d7"
      [] self = "Hour1" -> "h1"
      [] self = "Minute5" -> "m5"

\* TimeFrame::to_db_key, lines 159-165
TimeFrame_to_db_key(self) ==
    IF self = All THEN "all" ELSE LimitedTimeFrame_to_db_key(self.limited)

----------------------------------------------------------------------------
\* execution_chain/sync.rs: BlockRange and its iterator.

\* Bits of a block number (u32), scaled; usize is twice as wide.
U32Bits == 3
U32 == 0 .. (2 ^ U32Bits - 1)
wrapping_u32(x) == x % (2 ^ U32Bits)
wrapping_usize(x) == x % (2 ^ (2 * U32Bits))

\* IntoIterator for BlockRange, lines 176-186
into_iter(block_range) == [block_range |-> block_range, index |-> 0]

\* Mutant: the upper end is left out.
BlockRangeIntoIterator_next_exclusive(self) ==
    LET position == wrapping_usize(self.block_range.start + self.index)
    IN IF position < self.block_range.end
       THEN [item |-> Some(wrapping_u32(self.block_range.start + self.index)),
             self |-> [self EXCEPT !.index = wrapping_usize(self.index + 1)]]
       ELSE [item |-> None, self |-> self]

\* Iterator::next for BlockRangeIntoIterator, lines 188-208: the item, and the
\* iterator after the call.
BlockRangeIntoIterator_next(self) ==
    LET position == wrapping_usize(self.block_range.start + self.index)
    IN IF position < self.block_range.end \/ position = self.block_range.end
       THEN [item |-> Some(wrapping_u32(self.block_range.start + self.index)),
             self |-> [self EXCEPT !.index = wrapping_usize(self.index + 1)]]
       ELSE [item |-> None, self |-> self]

\* Iterator::collect: the items up to the first None.
RECURSIVE collect(_)
collect(iterator) ==
    LET step == BlockRangeIntoIterator_next(iterator)
    IN IF step.item = None THEN <<>>
       ELSE <<CHOOSE number \in step.item : TRUE>> \o collect(step.self)

\* BlockRange::new(gte, lte).into_iter().collect(), as block_range_iterable_test
\* runs it, lines 372-376.
block_range_iterable(greater_than_or_equal, less_than_or_equal) ==
    LET range_option == BlockRange_new(greater_than_or_equal, less_than_or_equal)
    IN IF range_option = None THEN Panicked
       ELSE Ok(collect(into_iter(CHOOSE r \in range_option : TRUE)))

----------------------------------------------------------------------------
\* usd_price/bybit.rs.  A timestamp counts units of which SubSeconds make a
\* second: chrono's DateTime is finer than the second Duration::num_seconds
\* gives.

\* Units of time in one second.
SubSeconds == 2

\* The latest timestamp of a price, in units.
MaxTime == 8

\* Longest list of prices.
MaxPrices == 3

\* Duration::num_seconds: the whole seconds, rounded towards zero.
num_seconds(self) ==
    IF self >= 0 THEN self \div SubSeconds ELSE 0 - ((0 - self) \div SubSeconds)

abs(x) == IF x < 0 THEN 0 - x ELSE x

\* Mutant: of two prices at the same distance the later one is kept.
RECURSIVE find_closest_price_loop_keep_last(_, _, _, _, _)
find_closest_price_loop_keep_last(prices, target_minute_rounded, i, best_distance, best_candidate) ==
    IF i > Len(prices) THEN best_candidate
    ELSE LET price == prices[i]
             distance == abs(num_seconds(target_minute_rounded - price.timestamp))
         IN IF best_distance = None
            THEN find_closest_price_loop_keep_last(prices, target_minute_rounded,
                                                   i + 1, Some(distance), Some(price))
            ELSE LET current_best == CHOOSE d \in best_distance : TRUE
                 IN IF distance <= current_best
                    THEN find_closest_price_loop_keep_last(
                             prices, target_minute_rounded, i + 1, Some(distance),
                             Some(price))
                    ELSE best_candidate

\* find_closest_price, lines 98-126: the loop from the i-th price on.
RECURSIVE find_closest_price_loop(_, _, _, _, _)
find_closest_price_loop(prices, target_minute_rounded, i, best_distance, best_candidate) ==
    IF i > Len(prices) THEN best_candidate
    ELSE LET price == prices[i]
             distance == abs(num_seconds(target_minute_rounded - price.timestamp))
         IN IF best_distance = None
            THEN find_closest_price_loop(prices, target_minute_rounded, i + 1,
                                         Some(distance), Some(price))
            ELSE LET current_best == CHOOSE d \in best_distance : TRUE
                 IN IF distance < current_best
                    THEN find_closest_price_loop(prices, target_minute_rounded, i + 1,
                                                 Some(distance), Some(price))
                    ELSE IF distance > current_best
                    THEN best_candidate
                    ELSE find_closest_price_loop(prices, target_minute_rounded, i + 1,
                                                 best_distance, best_candidate)

\* find_closest_price, lines 97-129
find_closest_price(prices, target_minute_rounded) ==
    expect(find_closest_price_loop(prices, target_minute_rounded, 1, None, None))


----------------------------------------------------------------------------
\* sync.rs

\* Mutant: the rollback starts one block too high.
rollback_numbers_off_by_one(store, greater_than_or_equal) ==
    delete_blocks(store, greater_than_or_equal + 1)

rollback_numbers(store, greater_than_or_equal) ==
    delete_blocks(store, greater_than_or_equal)

\* Mutant: the parent check is left out.
get_next_step_no_gap(store, head) ==
    IF get_is_number_known(store, head.number) THEN "HandleHeadFork"
    ELSE "AddToExisting"

\* Mutant: the number check is left out.
get_next_step_no_fork(store, head) ==
    IF ~get_is_parent_hash_known(store, head.parent_hash) THEN "HandleGap"
    ELSE "AddToExisting"

\* Mutant: the number check comes before the parent check.
get_next_step_number_first(store, head) ==
    IF get_is_number_known(store, head.number) THEN "HandleHeadFork"
    ELSE IF ~get_is_parent_hash_known(store, head.parent_hash) THEN "HandleGap"
    ELSE "AddToExisting"

get_next_step(store, head) ==
    IF ~get_is_parent_hash_known(store, head.parent_hash) THEN "HandleGap"
    ELSE IF get_is_number_known(store, head.number) THEN "HandleHeadFork"
    ELSE "AddToExisting"

Fetched(head) == [type |-> "Fetched", head |-> head]
Refetch(number) == [type |-> "Refetch", number |-> number]

\* sync_head, lines 97-104: the head a queue item stands for, as an Option, for
\* each chain the node may be on.
head_events(head_to_sync) ==
    IF head_to_sync.type = "Fetched"
    THEN {Some(head_to_sync.head)}
    ELSE {get_block_by_number(latest, head_to_sync.number) : latest \in NodeLatest}

\* Mutant: the range is walked forward, so the highest number ends at the front.
RECURSIVE queue_refetches_ascending(_, _, _)
queue_refetches_ascending(queue, lowest_number, number) ==
    IF number < lowest_number THEN queue
    ELSE queue_refetches_ascending(<<Refetch(lowest_number)>> \o queue,
                                   lowest_number + 1, number)

\* for number in (lowest_number..=head_number).rev() { push_front(Refetch(number)) }
RECURSIVE queue_refetches(_, _, _)
queue_refetches(queue, lowest_number, number) ==
    IF number < lowest_number THEN queue
    ELSE queue_refetches(<<Refetch(number)>> \o queue, lowest_number, number - 1)

\* Mutant: the head is queued again by number instead of as the head itself.
requeue_fork_head_as_refetch(queue, head_event) ==
    <<Refetch(head_event.number)>> \o queue

\* sync_head, lines 139-142: the head goes back to the front of the queue.
requeue_fork_head(queue, head_event) == <<Fetched(head_event)>> \o queue

\* Mutant: the higher of the two numbers is taken.
lowest_number_max(last_block_number, head_number) ==
    IF last_block_number >= head_number THEN last_block_number ELSE head_number

\* Mutant: the head's number is not taken into account.
lowest_number_last(last_block_number, head_number) == last_block_number

\* sync_head, lines 118-128
lowest_number_of(last_block_number, head_number) ==
    Min2(last_block_number, head_number)

\* sync_by_hash, lines 40-52: the block fetched by hash is stored.
sync_by_hash_store(store, block) == store_block(store, block)

\* Mutant: the skippables are run for every block.
is_synced_always(latest_hash, hash) == TRUE

\* sync_by_hash, lines 54-61
is_synced(latest_hash, hash) == latest_hash = hash

\* The tip-only recomputation of the burn sums, run like on_new_head when synced.
tip_recompute(synced, store, sums, block) ==
    IF synced THEN on_new_block(store, sums, block) ELSE Some(sums)

NoStep == [kind |-> "none", head |-> BlockOf(1), low |-> 0, latest |-> NoHash,
           on_new_head |-> FALSE]

Step(kind, head, low, latest, ran) ==
    [kind |-> kind, head |-> head, low |-> low, latest |-> latest, on_new_head |-> ran]

NoNotif == [head |-> BlockOf(1), store |-> {}, any |-> FALSE]

\* The stream of a run that is followed from its first live head on.
NoStream == [started |-> FALSE, from |-> 0, next |-> 0, last |-> 0, latest |-> NoHash]

\* No pure function is being applied.
Pending == [status |-> "pending"]
NoCall == [input |-> [fn |-> "none"], done |-> FALSE, out |-> Pending]

----------------------------------------------------------------------------
\* on_new_block of burn_sums/mod.rs step by step: each await is a step, and
\* what the store and the cache hold between two of them is what their readers
\* see.

NoPass == [pc |-> "idle", block |-> BlockOf(1), records |-> {}, deleted |-> 0]
NoCache == [burn_sums |-> None, burn_rates |-> None]

----------------------------------------------------------------------------
\* execution_chain/node/mod.rs: the callers of ExecutionNode::call and the
\* handle_messages task.  Each hold of a lock is a step; the tasks run on the
\* threads of the runtime, so the steps of one task interleave with those of
\* the others.

\* Tasks that call the node at the same time.
Callers == 2

\* Calls each of them makes.
MaxCalls == 2

\* Bits of an id (u16), scaled.
IdBits == 2
Ids == 0 .. (2 ^ IdBits - 1)

\* IdPool::new(u16::MAX.into()), lines 75-80 and 158: the capacity is taken as
\* the size asked for, the least HashSet::with_capacity gives.
IdPool_new == [next_id |-> 0, in_use_ids |-> {}, capacity |-> 2 ^ IdBits - 1]

\* The while loop of get_next_id, lines 87-89: the first id from next_id on that
\* is not in use; next_id += 1 past the last id panics or wraps with the build.
RECURSIVE first_free_id(_, _, _)
first_free_id(in_use_ids, next_id, steps) ==
    IF next_id \notin in_use_ids THEN {Some(next_id)}
    ELSE IF steps = 0 THEN {}
    ELSE IF next_id + 1 \in Ids
    THEN first_free_id(in_use_ids, next_id + 1, steps - 1)
    ELSE {None} \cup first_free_id(in_use_ids, 0, steps - 1)

\* Mutant: next_id is handed out whether it is in use or not.
IdPool_get_next_id_no_check(self) ==
    {[id |-> Some(self.next_id),
      pool |-> [self EXCEPT !.in_use_ids = @ \cup {self.next_id}]]}

\* IdPool::get_next_id, lines 82-94: the id and the pool after the call; None
\* for a panic.
IdPool_get_next_id(self) ==
    IF Cardinality(self.in_use_ids) = self.capacity
    THEN {[id |-> None, pool |-> self]}
    ELSE {IF found = None THEN [id |-> None, pool |-> self]
          ELSE [id |-> found,
                pool |-> [self EXCEPT !.next_id = CHOOSE id \in found : TRUE,
                                      !.in_use_ids = @ \cup found]] :
             found \in first_free_id(self.in_use_ids, self.next_id, 2 ^ IdBits)}

\* IdPool::free_id, lines 96-98
IdPool_free_id(self, id) == [self EXCEPT !.in_use_ids = @ \ {id}]

NoRequest == [caller |-> 0, seq |-> 0]
Request(caller, seq) == [caller |-> caller, seq |-> seq]

\* A caller: where it is in call, how many calls it has made, the id of the
\* running call, what its oneshot receiver holds, and the request whose
\* response the last call returned.
IdleCaller == [pc |-> "idle", seq |-> 0, id |-> 0, rx |-> "empty",
               response |-> NoRequest, returned |-> NoRequest]

InitNode ==
    /\ id_pool = IdPool_new
    /\ message_rx_map = {}
    /\ callers = [c \in 1 .. Callers |-> IdleCaller]
    /\ ws = {}
    /\ handler = [pc |-> "next", message |-> [id |-> 0, request |-> NoRequest]]

----------------------------------------------------------------------------
\* eth_supply.rs: update step by step, each await a step.

\* Slots of the beacon balances sums that update is called with.
MaxSlots == 2

\* Rows the eth_supply table grows to.
MaxRows == 6

\* No update is running, the table is empty and nothing is cached.
NoUpdate == [pc |-> "idle", parts |-> 0, table |-> <<>>, before |-> 0,
             parts_cache |-> None, since_merge |-> None, unique |-> FALSE]

\* What the synchronisation leaves alone is at rest.
InitOther ==
    /\ call = NoCall
    /\ pass = NoPass
    /\ cache = NoCache
    /\ InitNode
    /\ eth_supply = NoUpdate

InitSync ==
    /\ block_store \in {ChainOf(h) : h \in Hashes} \cup {{}}
    /\ heads_queue = <<>>
    /\ pc = "await_stream"
    /\ burn_sums = {}
    /\ last_step = NoStep
    /\ notif = NoNotif
    /\ heads_stream = NoStream
    /\ InitOther

Init ==
    /\ InitSync
    /\ node_chain = NoHash

\* sync_blocks, lines 285-289: the next head of the stream is pushed to the back.
\* With track, the head and the store it meets are remembered in notif.
next_head(track) ==
    /\ pc = "await_stream"
    /\ \E h \in Hashes :
        /\ heads_queue' = Append(heads_queue, Fetched(BlockOf(h)))
        /\ notif' = IF track
                    THEN [head |-> BlockOf(h), store |-> block_store, any |-> TRUE]
                    ELSE notif
    /\ pc' = "drain"
    /\ UNCHANGED <<other_vars, heads_stream, block_store, node_chain, burn_sums, last_step>>

NextHead == next_head(TRUE)

\* Mutant: the drain loop is left after a single item.
DrainDoneEarly ==
    /\ pc = "drain"
    /\ pc' = "await_stream"
    /\ last_step' = NoStep
    /\ UNCHANGED <<other_vars, heads_stream, block_store, heads_queue, node_chain, burn_sums, notif>>

\* sync_blocks, lines 294-299: pop_front gave None; back to the stream.
DrainDone ==
    /\ pc = "drain"
    /\ heads_queue = <<>>
    /\ pc' = "await_stream"
    /\ last_step' = NoStep
    /\ UNCHANGED <<other_vars, heads_stream, block_store, heads_queue, node_chain, burn_sums, notif>>

\* Mutant: a number the node has no block at is skipped and the drain goes on.
RefetchMissingSkipped ==
    /\ pc = "drain"
    /\ heads_queue # <<>>
    /\ None \in head_events(Head(heads_queue))
    /\ heads_queue' = Tail(heads_queue)
    /\ pc' = pc
    /\ last_step' = Step("panic_refetch", BlockOf(1), 0, NoHash, FALSE)
    /\ UNCHANGED <<other_vars, heads_stream, block_store, node_chain, burn_sums, notif>>

\* sync_head, lines 99-103: the node has no block at the number to refetch.
RefetchMissing ==
    /\ pc = "drain"
    /\ heads_queue # <<>>
    /\ None \in head_events(Head(heads_queue))
    /\ heads_queue' = Tail(heads_queue)
    /\ pc' = "panicked"
    /\ last_step' = Step("panic_refetch", BlockOf(1), 0, NoHash, FALSE)
    /\ UNCHANGED <<other_vars, heads_stream, block_store, node_chain, burn_sums, notif>>

\* sync_head, lines 109-129
HandleGap ==
    /\ pc = "drain"
    /\ heads_queue # <<>>
    /\ \E head_option \in head_events(Head(heads_queue)) :
       \E head_event \in head_option :
        /\ get_next_step(block_store, head_event) = "HandleGap"
        /\ \E last_block_number \in get_last_block_number(block_store) :
            LET lowest_number == lowest_number_of(last_block_number, head_event.number)
            IN
            /\ block_store' = rollback_numbers(block_store, lowest_number)
            /\ heads_queue' = queue_refetches(Tail(heads_queue), lowest_number,
                                              head_event.number)
            /\ last_step' = Step("gap", head_event, lowest_number, NoHash, FALSE)
    /\ UNCHANGED <<other_vars, heads_stream, pc, node_chain, burn_sums, notif>>

\* sync_head, lines 112-115: a gap with nothing stored fails the expect.
HandleGapEmpty ==
    /\ pc = "drain"
    /\ heads_queue # <<>>
    /\ \E head_option \in head_events(Head(heads_queue)) :
       \E head_event \in head_option :
        /\ get_next_step(block_store, head_event) = "HandleGap"
        /\ get_last_block_number(block_store) = None
        /\ last_step' = Step("panic_gap_empty", head_event, 0, NoHash, FALSE)
    /\ heads_queue' = Tail(heads_queue)
    /\ pc' = "panicked"
    /\ UNCHANGED <<other_vars, heads_stream, block_store, node_chain, burn_sums, notif>>

\* sync_head, lines 130-143
HandleHeadFork ==
    /\ pc = "drain"
    /\ heads_queue # <<>>
    /\ \E head_option \in head_events(Head(heads_queue)) :
       \E head_event \in head_option :
        /\ get_next_step(block_store, head_event) = "HandleHeadFork"
        /\ block_store' = rollback_numbers(block_store, head_event.number)
        /\ heads_queue' = requeue_fork_head(Tail(heads_queue), head_event)
        /\ last_step' = Step("fork", head_event, head_event.number, NoHash, FALSE)
    /\ UNCHANGED <<other_vars, heads_stream, pc, node_chain, burn_sums, notif>>

\* sync_head, lines 144-148, with sync_by_hash, lines 34-62.  With aggregate,
\* being synced also runs the burn sums' on_new_block for the block.
add_to_existing(aggregate) ==
    /\ pc = "drain"
    /\ heads_queue # <<>>
    /\ \E head_option \in head_events(Head(heads_queue)) :
       \E head_event \in head_option :
        /\ get_next_step(block_store, head_event) = "AddToExisting"
        /\ \E latest \in NodeLatest :
           \E fetched \in get_block_by_hash(latest, head_event.hash) :
           \E block \in fetched :
            LET stored == sync_by_hash_store(block_store, block)
                synced == is_synced(get_latest_block(latest).hash, head_event.hash)
                recomputed == tip_recompute(aggregate /\ synced, stored, burn_sums,
                                            block)
            IN
            /\ block_store' = stored
            /\ IF recomputed = None
               THEN /\ pc' = "panicked"
                    /\ burn_sums' = burn_sums
                    /\ last_step' = Step("panic_burn_sums", head_event, 0,
                                         get_latest_block(latest).hash, synced)
               ELSE /\ pc' = pc
                    /\ burn_sums' \in recomputed
                    /\ last_step' = Step("extend", head_event, 0,
                                         get_latest_block(latest).hash, synced)
    /\ heads_queue' = Tail(heads_queue)
    /\ UNCHANGED <<other_vars, heads_stream, node_chain, notif>>

AddToExisting == add_to_existing(FALSE)

\* sync_by_hash, lines 40-48: the block has disappeared from the node, or no price
\* close to the block is available; both expects fail.
AddToExistingFails ==
    /\ pc = "drain"
    /\ heads_queue # <<>>
    /\ \E head_option \in head_events(Head(heads_queue)) :
       \E head_event \in head_option :
        /\ get_next_step(block_store, head_event) = "AddToExisting"
        /\ \E failure \in {"panic_block_missing", "panic_no_price"} :
            /\ failure = "panic_block_missing" =>
                \E latest \in NodeLatest :
                    None \in get_block_by_hash(latest, head_event.hash)
            /\ last_step' = Step(failure, head_event, 0, NoHash, FALSE)
    /\ heads_queue' = Tail(heads_queue)
    /\ pc' = "panicked"
    /\ UNCHANGED <<other_vars, heads_stream, block_store, node_chain, burn_sums, notif>>

sync_head ==
    \/ RefetchMissing
    \/ HandleGap
    \/ HandleGapEmpty
    \/ HandleHeadFork
    \/ AddToExisting
    \/ AddToExistingFails

Next ==
    \/ NextHead
    \/ DrainDone
    \/ sync_head

Spec == Init /\ [][Next]_vars

----------------------------------------------------------------------------
\* The synchronisation with the burn sums' aggregation run as tip-only
\* recomputation.

NextHeadUntracked == next_head(FALSE)

AddToExistingAggregating == add_to_existing(TRUE)

NextSums ==
    \/ NextHeadUntracked
    \/ DrainDone
    \/ RefetchMissing
    \/ HandleGap
    \/ HandleGapEmpty
    \/ HandleHeadFork
    \/ AddToExistingAggregating
    \/ AddToExistingFails

SpecSums == Init /\ [][NextSums]_vars

----------------------------------------------------------------------------
\* Runs in which the chain only grows: every head of the stream is a child of
\* the highest stored block, appended at the node's tip or behind it.

\* sync_blocks, lines 285-289, for a head that get_next_step sends to
\* AddToExisting.
NextHeadExtending ==
    /\ pc = "await_stream"
    /\ \E h \in Hashes :
        /\ get_next_step(block_store, BlockOf(h)) = "AddToExisting"
        /\ heads_queue' = Append(heads_queue, Fetched(BlockOf(h)))
    /\ pc' = "drain"
    /\ UNCHANGED <<other_vars, heads_stream, block_store, node_chain, burn_sums, last_step, notif>>

InitPasses ==
    /\ InitSync
    /\ block_store # {}
    /\ node_chain = NoHash

NextPasses ==
    \/ NextHeadExtending
    \/ DrainDone
    \/ AddToExistingAggregating
    \/ AddToExistingFails

SpecPasses == InitPasses /\ [][NextPasses]_vars

----------------------------------------------------------------------------
\* The run from its start: sync_blocks asks for the heads from the last stored
\* block on, takes the historic heads first and the live heads after them.

\* stream_heads_from_last, lines 251-254: the origin block when nothing is
\* stored.
next_block_to_sync(store) ==
    LET last_block_number == get_last_block_number(store)
    IN IF last_block_number = None THEN NumberOf(1)
       ELSE (CHOOSE number \in last_block_number : TRUE) + 1

InitRestart ==
    /\ block_store \in {ChainOf(h) : h \in Hashes} \cup {{}}
    /\ heads_queue = <<>>
    /\ pc = "start"
    /\ burn_sums = {}
    /\ last_step = NoStep
    /\ notif = NoNotif
    /\ heads_stream = NoStream
    /\ node_chain = NoHash
    /\ InitOther

\* stream_heads_from_last with stream_heads_from, lines 227-256: the range of
\* the historic heads ends one below the node's latest block; BlockRange::new
\* panics when it would be empty.
StreamHeadsFromLast ==
    /\ pc = "start"
    /\ \E latest \in NodeLatest :
        LET gte_slot == next_block_to_sync(block_store)
            last_block_on_start == get_latest_block(latest)
            block_range == BlockRange_new(gte_slot, last_block_on_start.number - 1)
        IN IF block_range = None
           THEN /\ pc' = "panicked"
                /\ heads_stream' = [NoStream EXCEPT !.from = gte_slot,
                                                     !.latest = latest]
                /\ last_step' = Step("panic_block_range", last_block_on_start,
                                     gte_slot, latest, FALSE)
           ELSE /\ pc' = "await_stream"
                /\ heads_stream' = [started |-> TRUE, from |-> gte_slot,
                                    next |-> gte_slot,
                                    last |-> last_block_on_start.number - 1,
                                    latest |-> latest]
                /\ last_step' = last_step
    /\ UNCHANGED <<other_vars, block_store, heads_queue, node_chain, burn_sums, notif>>

\* get_historic_stream, lines 215-221, and sync_blocks, lines 285-289: the next
\* number of the range is fetched by number and its head is pushed to the back.
NextHistoricHead ==
    /\ pc = "await_stream"
    /\ heads_stream.started
    /\ heads_stream.next <= heads_stream.last
    /\ \E latest \in NodeLatest :
       \E block \in get_block_by_number(latest, heads_stream.next) :
        heads_queue' = Append(heads_queue, Fetched(block))
    /\ heads_stream' = [heads_stream EXCEPT !.next = @ + 1]
    /\ pc' = "drain"
    /\ UNCHANGED <<other_vars, block_store, node_chain, burn_sums, last_step, notif>>

\* get_historic_stream, lines 216-219: the node has no block at the number; the
\* unwrap ends the task that feeds the historic stream, and the live heads
\* follow.
HistoricFetchFails ==
    /\ pc = "await_stream"
    /\ heads_stream.started
    /\ heads_stream.next <= heads_stream.last
    /\ \E latest \in NodeLatest :
        get_block_by_number(latest, heads_stream.next) = None
    /\ heads_stream' = [heads_stream EXCEPT !.last = heads_stream.next - 1]
    /\ UNCHANGED <<other_vars, block_store, heads_queue, pc, node_chain, burn_sums, last_step,
                   notif>>

\* stream_heads_from, line 245: the live heads follow the historic ones.
NextLiveHead ==
    /\ heads_stream.started
    /\ heads_stream.next > heads_stream.last
    /\ next_head(FALSE)

NextRestart ==
    \/ StreamHeadsFromLast
    \/ NextHistoricHead
    \/ HistoricFetchFails
    \/ NextLiveHead
    \/ DrainDone
    \/ sync_head

SpecRestart == InitRestart /\ [][NextRestart]_vars

----------------------------------------------------------------------------
\* Drains against a node at rest: between two heads of the stream the node may
\* move to any chain, and it stays on it while the queue is drained.  The head
\* may be a block of that chain or one the node has left behind.

\* sync_blocks, lines 285-289, with the chain the node is on when the head is
\* taken from the stream.
NextHeadSteady ==
    /\ pc = "await_stream"
    /\ \E latest \in Hashes, h \in Hashes :
        /\ node_chain' = latest
        /\ heads_queue' = Append(heads_queue, Fetched(BlockOf(h)))
        /\ notif' = [head |-> BlockOf(h), store |-> block_store, any |-> TRUE]
    /\ pc' = "drain"
    /\ UNCHANGED <<other_vars, heads_stream, block_store, burn_sums, last_step>>

NextSteady ==
    \/ NextHeadSteady
    \/ DrainDone
    \/ sync_head

SpecSteady == Init /\ [][NextSteady]_vars

\* sync_blocks, lines 293-313: the loop takes item after item without waiting
\* for anything but its own requests.
SpecDrain == SpecSteady /\ WF_vars(DrainDone \/ sync_head)

----------------------------------------------------------------------------
\* The pure functions, each applied once to arguments drawn at the start.

\* Lists of prices in ascending order of time, the i-th price worth i dollars.
RECURSIVE PriceLists(_)
PriceLists(n) ==
    IF n = 0 THEN {<<>>}
    ELSE LET shorter == PriceLists(n - 1)
         IN shorter \cup
            {Append(prices, [timestamp |-> t, usd |-> Len(prices) + 1]) :
                prices \in {p \in shorter : Len(p) = n - 1}, t \in 0 .. MaxTime}

Ascending(prices) ==
    \A i \in 1 .. Len(prices) - 1 : prices[i].timestamp <= prices[i + 1].timestamp

\* The minutes: a minute of the model has two seconds.
Minutes == {t \in 0 .. MaxTime : t % (2 * SubSeconds) = 0}

Texts == {"all", "m5", "h1", "d1", "d7", "d30", "d14"}

CallInputs ==
    {[fn |-> f, lhs |-> lhs, rhs |-> rhs] :
        f \in {"GweiNewtype_add", "GweiNewtype_sub"}, lhs \in U64, rhs \in U64}
    \cup {[fn |-> f, lhs |-> lhs, rhs |-> rhs] :
        f \in {"WeiNewtype_add", "WeiNewtype_sub"}, lhs \in I128, rhs \in I128}
    \cup {[fn |-> "GweiNewtype_from_eth", eth |-> eth] : eth \in U64}
    \cup {[fn |-> "WeiNewtype_from_eth", eth |-> eth] : eth \in I128}
    \cup {[fn |-> "calc_issuance", validator_balances_sum_gwei |-> balances,
           deposit_sum_aggregated |-> deposits] : balances \in U64, deposits \in U64}
    \cup {[fn |-> "LimitedTimeFrame_from_str", s |-> s] : s \in Texts}
    \cup {[fn |-> f, self |-> self] :
        f \in {"LimitedTimeFrame_fmt", "LimitedTimeFrame_to_db_key"},
        self \in LimitedTimeFrame}
    \cup {[fn |-> "TimeFrame_to_db_key", time_frame |-> time_frame] :
        time_frame \in TimeFrame}
    \cup {[fn |-> "block_range_iterable", greater_than_or_equal |-> gte,
           less_than_or_equal |-> lte] : gte \in U32, lte \in U32}
    \cup {[fn |-> "find_closest_price", prices |-> prices,
           target_minute_rounded |-> target] :
        prices \in {p \in PriceLists(MaxPrices) : Ascending(p)}, target \in Minutes}

InitCalls ==
    /\ block_store = {}
    /\ heads_queue = <<>>
    /\ pc = "await_stream"
    /\ node_chain = NoHash
    /\ burn_sums = {}
    /\ last_step = NoStep
    /\ notif = NoNotif
    /\ heads_stream = NoStream
    /\ call \in {[input |-> input, done |-> FALSE, out |-> Pending] :
                    input \in CallInputs}
    /\ pass = NoPass
    /\ cache = NoCache
    /\ InitNode
    /\ eth_supply = NoUpdate

\* The call returns one of the outcomes, or panics.
returns(outcomes) ==
    /\ \E out \in outcomes : call' = [call EXCEPT !.done = TRUE, !.out = out]
    /\ UNCHANGED <<sync_vars, supply_vars, pass_vars, node_vars>>

GweiAdd ==
    /\ ~call.done /\ call.input.fn = "GweiNewtype_add"
    /\ returns({GweiNewtype_add(call.input.lhs, call.input.rhs)})

GweiSub ==
    /\ ~call.done /\ call.input.fn = "GweiNewtype_sub"
    /\ returns({GweiNewtype_sub(call.input.lhs, call.input.rhs)})

WeiAdd ==
    /\ ~call.done /\ call.input.fn = "WeiNewtype_add"
    /\ returns({WeiNewtype_add(call.input.lhs, call.input.rhs)})

WeiSub ==
    /\ ~call.done /\ call.input.fn = "WeiNewtype_sub"
    /\ returns({WeiNewtype_sub(call.input.lhs, call.input.rhs)})

GweiFromEth ==
    /\ ~call.done /\ call.input.fn = "GweiNewtype_from_eth"
    /\ returns(GweiNewtype_from_eth(call.input.eth))

WeiFromEth ==
    /\ ~call.done /\ call.input.fn = "WeiNewtype_from_eth"
    /\ returns(WeiNewtype_from_eth(call.input.eth))

CalcIssuance ==
    /\ ~call.done /\ call.input.fn = "calc_issuance"
    /\ returns({calc_issuance(call.input.validator_balances_sum_gwei,
                              call.input.deposit_sum_aggregated)})

LimitedTimeFrameFromStr ==
    /\ ~call.done /\ call.input.fn = "LimitedTimeFrame_from_str"
    /\ returns({LimitedTimeFrame_from_str(call.input.s)})

LimitedTimeFrameFmt ==
    /\ ~call.done /\ call.input.fn = "LimitedTimeFrame_fmt"
    /\ returns({Ok(LimitedTimeFrame_fmt(call.input.self))})

LimitedTimeFrameToDbKey ==
    /\ ~call.done /\ call.input.fn = "LimitedTimeFrame_to_db_key"
    /\ returns({Ok(LimitedTimeFrame_to_db_key(call.input.self))})

TimeFrameToDbKey ==
    /\ ~call.done /\ call.input.fn = "TimeFrame_to_db_key"
    /\ returns({Ok(TimeFrame_to_db_key(call.input.time_frame))})

BlockRangeIterable ==
    /\ ~call.done /\ call.input.fn = "block_range_iterable"
    /\ returns({block_range_iterable(call.input.greater_than_or_equal,
                                     call.input.less_than_or_equal)})

FindClosestPrice ==
    /\ ~call.done /\ call.input.fn = "find_closest_price"
    /\ returns({find_closest_price(call.input.prices,
                                   call.input.target_minute_rounded)})

NextCalls ==
    \/ GweiAdd
    \/ GweiSub
    \/ WeiAdd
    \/ WeiSub
    \/ GweiFromEth
    \/ WeiFromEth
    \/ CalcIssuance
    \/ LimitedTimeFrameFromStr
    \/ LimitedTimeFrameFmt
    \/ LimitedTimeFrameToDbKey
    \/ TimeFrameToDbKey
    \/ BlockRangeIterable
    \/ FindClosestPrice

SpecCalls == InitCalls /\ [][NextCalls]_vars


----------------------------------------------------------------------------
\* The steps of on_new_block.

\* on_new_block, lines 253-268: the seven calculations of the join!.
join_calc_new_burn_sum_record(store, sums, block) ==
    [tf \in TimeFrames |-> calc_new_burn_sum_record(store, sums, block, tf)]

\* on_new_block, lines 276-305: the sums of the seven records.
BurnSums(records) ==
    [tf \in TimeFrames |-> (CHOOSE r \in records : r.time_frame = tf).sum_wei]

\* BurnRates from BurnSums, line 309: a rate is kept as the sum and the time
\* frame it is taken over.
BurnRates(sums) == [tf \in TimeFrames |-> [sum_wei |-> sums[tf], over |-> tf]]

\* Lines 253-268, after the caller has stored the block: the records are
\* calculated, or one of the calculations panics.
OnNewBlockCalc ==
    /\ pass.pc = "idle"
    /\ \E h \in Hashes :
        /\ get_next_step(block_store, BlockOf(h)) = "AddToExisting"
        /\ LET stored == sync_by_hash_store(block_store, BlockOf(h))
               calculated == join_calc_new_burn_sum_record(stored, burn_sums,
                                                           BlockOf(h))
           IN /\ block_store' = stored
              /\ pass' = IF \E tf \in TimeFrames : calculated[tf] = None
                         THEN [NoPass EXCEPT !.pc = "panicked", !.block = BlockOf(h)]
                         ELSE [pc |-> "calculated", block |-> BlockOf(h),
                               records |-> UNION {calculated[tf] : tf \in TimeFrames},
                               deleted |-> 0]
    /\ UNCHANGED <<heads_queue, pc, node_chain, burn_sums, last_step, notif,
                   heads_stream, supply_vars, call, cache, node_vars>>

\* Lines 270-271: store_burn_sums with the seven records.
StoreBurnSums ==
    /\ pass.pc = "calculated"
    /\ burn_sums' = store_burn_sums(burn_sums, pass.records)
    /\ pass' = [pass EXCEPT !.pc = "stored"]
    /\ UNCHANGED <<block_store, heads_queue, pc, node_chain, last_step, notif,
                   heads_stream, supply_vars, call, cache, node_vars>>

\* Mutant: the sums are deleted up to a number ahead of the block's.
DeleteOldSumsAhead ==
    /\ pass.pc = "stored"
    /\ burn_sums' = delete_old_sums(burn_sums, pass.block.number + KeepSums)
    /\ pass' = [pass EXCEPT !.pc = "pruned",
                            !.deleted = Cardinality(burn_sums \ burn_sums')]
    /\ UNCHANGED <<block_store, heads_queue, pc, node_chain, last_step, notif,
                   heads_stream, supply_vars, call, cache, node_vars>>

\* Line 274: delete_old_sums.
DeleteOldSums ==
    /\ pass.pc = "stored"
    /\ burn_sums' = delete_old_sums(burn_sums, pass.block.number)
    /\ pass' = [pass EXCEPT !.pc = "pruned",
                            !.deleted = Cardinality(burn_sums \ burn_sums')]
    /\ UNCHANGED <<block_store, heads_queue, pc, node_chain, last_step, notif,
                   heads_stream, supply_vars, call, cache, node_vars>>

\* Mutant: the sums are published as soon as they are stored, before the old
\* ones are deleted.
PublishBurnSumsBeforeDelete ==
    /\ pass.pc \in {"stored", "pruned"}
    /\ cache' = [cache EXCEPT !.burn_sums = Some(BurnSums(pass.records))]
    /\ pass' = [pass EXCEPT !.pc = "published_sums"]
    /\ UNCHANGED <<sync_vars, supply_vars, call, node_vars>>

\* Lines 313-315: update_and_publish of CacheKey::BurnSums.
PublishBurnSums ==
    /\ pass.pc = "pruned"
    /\ cache' = [cache EXCEPT !.burn_sums = Some(BurnSums(pass.records))]
    /\ pass' = [pass EXCEPT !.pc = "published_sums"]
    /\ UNCHANGED <<sync_vars, supply_vars, call, node_vars>>

\* Lines 317-319: update_and_publish of CacheKey::BurnRates; on_new_block
\* returns.
PublishBurnRates ==
    /\ pass.pc = "published_sums"
    /\ cache' = [cache EXCEPT
                    !.burn_rates = Some(BurnRates(BurnSums(pass.records)))]
    /\ pass' = [pass EXCEPT !.pc = "idle"]
    /\ UNCHANGED <<sync_vars, supply_vars, call, node_vars>>

\* Lines 313-319: update_and_publish gives an error and the unwrap panics.
PublishFails ==
    /\ pass.pc \in {"pruned", "published_sums"}
    /\ pass' = [pass EXCEPT !.pc = "panicked"]
    /\ UNCHANGED <<sync_vars, supply_vars, call, cache, node_vars>>

InitPublish ==
    /\ InitSync
    /\ block_store # {}
    /\ node_chain = NoHash

NextPublish ==
    \/ OnNewBlockCalc
    \/ StoreBurnSums
    \/ DeleteOldSums
    \/ PublishBurnSums
    \/ PublishBurnRates
    \/ PublishFails

SpecPublish == InitPublish /\ [][NextPublish]_vars


----------------------------------------------------------------------------
\* The IdPool on its own: any sequence of get_next_id and free_id calls.

\* HashSet::with_capacity(size), line 78, and HashSet::capacity, line 83: the
\* set holds at least size elements without reallocating; how many more is up
\* to the library.  Capacities above the number of ids all behave alike.
HashSet_with_capacity(size) == size .. (2 ^ IdBits + 1)

InitPool ==
    /\ block_store = {}
    /\ heads_queue = <<>>
    /\ pc = "await_stream"
    /\ node_chain = NoHash
    /\ burn_sums = {}
    /\ last_step = NoStep
    /\ notif = NoNotif
    /\ heads_stream = NoStream
    /\ call = NoCall
    /\ pass = NoPass
    /\ cache = NoCache
    /\ id_pool \in {[IdPool_new EXCEPT !.capacity = capacity] :
                       capacity \in HashSet_with_capacity(IdPool_new.capacity)}
    /\ message_rx_map = {}
    /\ callers = [c \in 1 .. Callers |-> IdleCaller]
    /\ ws = {}
    /\ handler = [pc |-> "next", message |-> [id |-> 0, request |-> NoRequest]]
    /\ eth_supply = NoUpdate

\* get_next_id, lines 82-94, on the pool as it is: the id it returns, or the
\* panic, is kept in call.  A loop that never ends returns nothing.
GetNextId ==
    /\ call.out # Panicked
    /\ \E got \in IdPool_get_next_id(id_pool) :
        /\ id_pool' = got.pool
        /\ call' = [input |-> [fn |-> "get_next_id", pool |-> id_pool],
                    done |-> TRUE,
                    out |-> IF got.id = None THEN Panicked
                            ELSE Ok(CHOOSE id \in got.id : TRUE)]
    /\ UNCHANGED <<sync_vars, supply_vars, pass_vars, message_rx_map, callers, ws,
                   handler>>

\* free_id, lines 96-98, with any id.
FreeId ==
    /\ call.out # Panicked
    /\ \E id \in Ids :
        /\ id_pool' = IdPool_free_id(id_pool, id)
        /\ call' = [input |-> [fn |-> "free_id", pool |-> id_pool, id |-> id],
                    done |-> TRUE, out |-> Ok(id)]
    /\ UNCHANGED <<sync_vars, supply_vars, pass_vars, message_rx_map, callers, ws,
                   handler>>

NextPool ==
    \/ GetNextId
    \/ FreeId

SpecPool == InitPool /\ [][NextPool]_vars

----------------------------------------------------------------------------
\* The steps of call and of handle_messages.

\* The panic hook of connect, lines 176-180: a panic ends the process.
Exited ==
    \/ handler.pc = "panicked"
    \/ \E c \in 1 .. Callers : callers[c].pc = "panicked"

\* HashMap::insert and HashMap::remove on the map from ids to senders.
senders_of(map, id) == {e \in map : e.id = id}

\* call, line 237: the id is taken from the pool.
CallGetNextId(c) ==
    /\ ~Exited
    /\ callers[c].pc = "idle"
    /\ callers[c].seq < MaxCalls
    /\ \E got \in IdPool_get_next_id(id_pool) :
        /\ id_pool' = got.pool
        /\ callers' = [callers EXCEPT ![c] =
                          IF got.id = None THEN [@ EXCEPT !.pc = "panicked"]
                          ELSE [@ EXCEPT !.pc = "insert",
                                         !.seq = @ + 1,
                                         !.id = CHOOSE id \in got.id : TRUE,
                                         !.rx = "empty"]]
    /\ UNCHANGED <<sync_vars, supply_vars, call, pass_vars, message_rx_map, ws, handler>>

\* call, lines 248-250: the sender of a new oneshot channel is put into the map
\* under the id; a sender the map held under it is dropped, and its receiver is
\* cancelled.
CallInsert(c) ==
    /\ ~Exited
    /\ callers[c].pc = "insert"
    /\ message_rx_map' =
          (message_rx_map \ senders_of(message_rx_map, callers[c].id))
          \cup {[id |-> callers[c].id, tx |-> Request(c, callers[c].seq)]}
    /\ callers' = [o \in 1 .. Callers |->
                      IF o = c THEN [callers[o] EXCEPT !.pc = "send"]
                      ELSE IF \E e \in senders_of(message_rx_map, callers[c].id) :
                                 e.tx = Request(o, callers[o].seq)
                      THEN [callers[o] EXCEPT !.rx = "cancelled"]
                      ELSE callers[o]]
    /\ UNCHANGED <<sync_vars, supply_vars, call, pass_vars, id_pool, ws, handler>>

\* call, line 251: the request goes out to the node.
CallSend(c) ==
    /\ ~Exited
    /\ callers[c].pc = "send"
    /\ ws' = ws \cup {[id |-> callers[c].id, request |-> Request(c, callers[c].seq)]}
    /\ callers' = [callers EXCEPT ![c].pc = "await"]
    /\ UNCHANGED <<sync_vars, supply_vars, call, pass_vars, id_pool, message_rx_map, handler>>

\* call, line 253: rx.await.unwrap() returns what the receiver holds, or panics
\* when the sender was dropped.
CallReturn(c) ==
    /\ ~Exited
    /\ callers[c].pc = "await"
    /\ callers[c].rx # "empty"
    /\ callers' = [callers EXCEPT ![c] =
                      IF callers[c].rx = "cancelled" THEN [@ EXCEPT !.pc = "panicked"]
                      ELSE [@ EXCEPT !.pc = "idle", !.rx = "empty",
                                     !.returned = callers[c].response]]
    /\ UNCHANGED <<sync_vars, supply_vars, call, pass_vars, id_pool, message_rx_map, ws, handler>>

\* handle_messages, lines 117-131: a response of the node, to any of the
\* requests it has, is read and its id is freed.
HandleMessage ==
    /\ ~Exited
    /\ handler.pc = "next"
    /\ \E message \in ws :
        /\ ws' = ws \ {message}
        /\ id_pool' = IdPool_free_id(id_pool, message.id)
        /\ handler' = [pc |-> "remove", message |-> message]
    /\ UNCHANGED <<sync_vars, supply_vars, call, pass_vars, message_rx_map, callers>>

\* handle_messages, lines 133-146: the sender under the id is taken out of the
\* map and the response is sent through it; no sender under the id panics.
HandleRemove ==
    /\ ~Exited
    /\ handler.pc = "remove"
    /\ LET found == senders_of(message_rx_map, handler.message.id)
       IN IF found = {}
          THEN /\ handler' = [handler EXCEPT !.pc = "panicked"]
               /\ UNCHANGED <<message_rx_map, callers>>
          ELSE LET tx == (CHOOSE e \in found : TRUE).tx
               IN /\ message_rx_map' = message_rx_map \ found
                  /\ callers' = [callers EXCEPT ![tx.caller] =
                                    [@ EXCEPT !.rx = "full",
                                              !.response = handler.message.request]]
                  /\ handler' = [handler EXCEPT !.pc = "next"]
    /\ UNCHANGED <<sync_vars, supply_vars, call, pass_vars, id_pool, ws>>

Call ==
    \E c \in 1 .. Callers :
        \/ CallGetNextId(c)
        \/ CallInsert(c)
        \/ CallSend(c)
        \/ CallReturn(c)

InitClient ==
    /\ block_store = {}
    /\ heads_queue = <<>>
    /\ pc = "await_stream"
    /\ node_chain = NoHash
    /\ burn_sums = {}
    /\ last_step = NoStep
    /\ notif = NoNotif
    /\ heads_stream = NoStream
    /\ InitOther

NextClient ==
    \/ Call
    \/ HandleMessage
    \/ HandleRemove

SpecClient == InitClient /\ [][NextClient]_vars


----------------------------------------------------------------------------
\* eth_supply::update await by await.  A row of eth_supply is kept as the slot
\* of its balances, which gives its timestamp.  Whether the table takes a
\* second row with the same timestamp is up to its schema, which the
\* migrations define: both kinds of table are started from.

\* store, lines 28-49: the table after the INSERT, or None when the table
\* refuses the row.
eth_supply_store(table, unique, eth_supply_parts) ==
    IF unique /\ \E i \in 1 .. Len(table) : table[i] = eth_supply_parts
    THEN None
    ELSE Some(Append(table, eth_supply_parts))

\* get_supply_since_merge_by_minute, lines 65-88: one row for each minute.
get_supply_since_merge_by_minute(table) == {table[i] : i \in 1 .. Len(table)}

\* get_current_supply, lines 99-132: the row with the latest timestamp.
get_current_supply(table) == Max({table[i] : i \in 1 .. Len(table)})

InitSupply ==
    /\ block_store = {}
    /\ heads_queue = <<>>
    /\ pc = "await_stream"
    /\ node_chain = NoHash
    /\ burn_sums = {}
    /\ last_step = NoStep
    /\ notif = NoNotif
    /\ heads_stream = NoStream
    /\ call = NoCall
    /\ pass = NoPass
    /\ cache = NoCache
    /\ InitNode
    /\ eth_supply \in {[NoUpdate EXCEPT !.unique = unique] : unique \in BOOLEAN}

\* update, line 208: get_supply_parts for the balances sum of a slot.
GetSupplyParts ==
    /\ eth_supply.pc \in {"idle", "failed"}
    /\ Len(eth_supply.table) + 2 <= MaxRows
    /\ \E slot \in 1 .. MaxSlots :
        eth_supply' = [eth_supply EXCEPT !.pc = "parts", !.parts = slot,
                                         !.before = Len(eth_supply.table)]
    /\ UNCHANGED <<sync_vars, call, pass_vars, node_vars>>

\* update, line 208: get_supply_parts finds no balances sum and update returns
\* the error.
GetSupplyPartsFails ==
    /\ eth_supply.pc = "idle"
    /\ eth_supply' = [eth_supply EXCEPT !.pc = "failed",
                                        !.before = Len(eth_supply.table)]
    /\ UNCHANGED <<sync_vars, call, pass_vars, node_vars>>

\* update, line 210, with update_supply_parts, lines 163-178.
UpdateSupplyParts ==
    /\ eth_supply.pc = "parts"
    /\ eth_supply' = [eth_supply EXCEPT !.pc = "parts_cached",
                                        !.parts_cache = Some(eth_supply.parts)]
    /\ UNCHANGED <<sync_vars, call, pass_vars, node_vars>>

\* update, line 212: store(executor, &eth_supply_parts).await?
UpdateStore ==
    /\ eth_supply.pc = "parts_cached"
    /\ LET stored == eth_supply_store(eth_supply.table, eth_supply.unique,
                                      eth_supply.parts)
       IN eth_supply' = IF stored = None THEN [eth_supply EXCEPT !.pc = "failed"]
                        ELSE [eth_supply EXCEPT !.pc = "stored",
                                                !.table = CHOOSE t \in stored : TRUE]
    /\ UNCHANGED <<sync_vars, call, pass_vars, node_vars>>

\* update, line 214, with update_supply_since_merge, line 138:
\* store(executor, eth_supply_parts).await?
UpdateSupplySinceMergeStore ==
    /\ eth_supply.pc = "stored"
    /\ LET stored == eth_supply_store(eth_supply.table, eth_supply.unique,
                                      eth_supply.parts)
       IN eth_supply' = IF stored = None THEN [eth_supply EXCEPT !.pc = "failed"]
                        ELSE [eth_supply EXCEPT !.pc = "stored_again",
                                                !.table = CHOOSE t \in stored : TRUE]
    /\ UNCHANGED <<sync_vars, call, pass_vars, node_vars>>

\* update_supply_since_merge, lines 140-158: the rows are read and the value of
\* CacheKey::SupplySinceMerge is set; update returns Ok.
SetSupplySinceMerge ==
    /\ eth_supply.pc = "stored_again"
    /\ eth_supply' =
          [eth_supply EXCEPT
              !.pc = "idle",
              !.since_merge =
                  Some([timestamp |-> get_current_supply(eth_supply.table),
                        supply_by_minute |->
                            get_supply_since_merge_by_minute(eth_supply.table)])]
    /\ UNCHANGED <<sync_vars, call, pass_vars, node_vars>>

NextSupply ==
    \/ GetSupplyParts
    \/ GetSupplyPartsFails
    \/ UpdateSupplyParts
    \/ UpdateStore
    \/ UpdateSupplySinceMergeStore
    \/ SetSupplySinceMerge

SpecSupply == InitSupply /\ [][NextSupply]_vars

----------------------------------------------------------------------------
\* The types of the synchronisation.

TypeOK ==
    /\ pc \in {"start", "await_stream", "drain", "panicked"}
    /\ node_chain \in Hashes \cup {NoHash}
    /\ \A b \in block_store : b = BlockOf(b.hash) /\ b.hash \in Hashes

----------------------------------------------------------------------------
\* Properties of the synchronisation.

Numbers(store) == {b.number : b \in store}

\* A step of sync_head is any step taken with an item in the queue.
SyncHeadStep == pc = "drain" /\ heads_queue # <<>> /\ last_step'.kind # "panic_refetch"

ParentKnown(store, head) == \E b \in store : b.hash = head.parent_hash
NumberTaken(store, head) == \E b \in store : b.number = head.number

GapCase ==
    SyncHeadStep /\ block_store # {} /\ ~ParentKnown(block_store, last_step'.head)
ForkCase ==
    /\ SyncHeadStep
    /\ ParentKnown(block_store, last_step'.head)
    /\ NumberTaken(block_store, last_step'.head)

\* C1. No-gap invariant: two stored blocks with consecutive numbers are parent
\* and child, and no block number is stored twice, in every reachable state.
NoGapNoFork ==
    \A b1, b2 \in block_store :
        /\ b2.number = b1.number + 1 => b2.parent_hash = b1.hash
        /\ b2.number = b1.number => b2 = b1

\* C1 witness: a drain replaced a stored block by a block of another branch and
\* built on it.
NoGapNoForkWitness ==
    /\ pc = "await_stream"
    /\ notif.any
    /\ \E old \in notif.store, new \in block_store :
        /\ new.number = old.number
        /\ new.hash # old.hash
        /\ \E child \in block_store : child.parent_hash = new.hash

\* C2. Rollback correctness: a rollback to n leaves no block with number >= n,
\* keeps every block with number < n as it was, and so removes only a suffix.
RollbackCorrect ==
    [][(SyncHeadStep /\ last_step'.kind \in {"gap", "fork"}) =>
        /\ \A b \in block_store' : b.number < last_step'.low
        /\ \A b \in block_store : b.number < last_step'.low => b \in block_store'
        /\ block_store' \subseteq block_store
        /\ \A gone \in block_store \ block_store', kept \in block_store' :
            kept.number < gone.number]_vars

\* C2 witness: a rollback removed some blocks and kept others.
RollbackCorrectWitness ==
    /\ last_step.kind \in {"gap", "fork"}
    /\ block_store # {}
    /\ \E b \in notif.store : b.number >= last_step.low
    /\ block_store = {b \in notif.store : b.number < last_step.low}

KindOfStep(step) ==
    CASE step = "HandleGap" -> {"gap", "panic_gap_empty"}
      [] step = "HandleHeadFork" -> {"fork"}
      [] step = "AddToExisting" ->
            {"extend", "panic_block_missing", "panic_no_price", "panic_burn_sums"}

\* The classification as the claim words it: a fork only when the number is
\* occupied by a different block.
ClaimedStep(store, head) ==
    IF ~ParentKnown(store, head) THEN "HandleGap"
    ELSE IF \E b \in store : b.number = head.number /\ b.hash # head.hash
         THEN "HandleHeadFork"
    ELSE "AddToExisting"

\* The classification by occupancy of the number alone.
OccupancyStep(store, head) ==
    IF ~ParentKnown(store, head) THEN "HandleGap"
    ELSE IF NumberTaken(store, head) THEN "HandleHeadFork"
    ELSE "AddToExisting"

\* C3 as claimed: Gap if the parent hash is unknown, otherwise Fork-at-height if
\* the number is occupied by a different block, otherwise Extension.
ClassificationAsClaimed ==
    [][SyncHeadStep =>
        last_step'.kind \in KindOfStep(ClaimedStep(block_store, last_step'.head))]_vars

\* C3 amended: Gap if the parent hash is unknown, otherwise Fork-at-height if the
\* number is occupied by any stored block (the head's own block included),
\* otherwise Extension; the parent check comes first.
Classification ==
    [][SyncHeadStep =>
        last_step'.kind \in KindOfStep(OccupancyStep(block_store, last_step'.head))]_vars

\* C3 witness: a head whose own block is stored was classified as a fork.
ClassificationWitness ==
    /\ last_step.kind = "fork"
    /\ last_step.head \in notif.store

\* C4. Gap rollback bound: with last the highest stored number and low the lower
\* of last and the head's number, a Gap step deletes exactly the blocks numbered
\* low and up, and no Refetch it queues is for a number still stored.
GapRollbackBound ==
    [][GapCase =>
        LET low == Min2(Max(Numbers(block_store)), last_step'.head.number) IN
        /\ block_store' = {b \in block_store : b.number < low}
        /\ \A i \in 1..Len(heads_queue') :
            heads_queue'[i].type = "Refetch" =>
                ~\E b \in block_store' : b.number >= heads_queue'[i].number]_vars

\* C4 witness: a gap at a head below the highest stored block rolled back to the
\* head's number and kept the blocks below it.
GapRollbackBoundWitness ==
    /\ last_step.kind = "gap"
    /\ last_step.head.number < Max(Numbers(notif.store) \cup {0})
    /\ last_step.low = last_step.head.number
    /\ block_store # {}
    /\ heads_queue # <<>>

\* The items Refetch(low), ..., Refetch(high), front first.
RefetchRun(low, high) == [i \in 1..(high - low + 1) |-> Refetch(low + i - 1)]

ForkHandling ==
    [][/\ ForkCase =>
            /\ block_store' = {b \in block_store : b.number < last_step'.head.number}
            /\ heads_queue' = <<Fetched(last_step'.head)>> \o Tail(heads_queue)
            /\ pc' = "drain"
       /\ (last_step.kind = "fork" /\ vars' # vars) =>
            /\ Head(heads_queue) = Fetched(last_step.head)
            /\ last_step'.head = last_step.head
            /\ last_step'.kind \in KindOfStep("AddToExisting")]_vars

\* C6 witness: the head re-pushed by a fork step was appended by the next step.
ForkHandlingWitness ==
    /\ last_step.kind = "extend"
    /\ notif.head = last_step.head
    /\ \E b \in notif.store : b.number = last_step.head.number /\ b # last_step.head
    /\ last_step.head \in block_store

\* C7. Depth-first recovery: a head of the stream is queued only onto the empty
\* queue, and the stream is awaited only with the queue empty, so every item a
\* notification gives rise to is processed before the next notification.
DepthFirst ==
    /\ pc = "await_stream" => heads_queue = <<>>
    /\ pc = "drain" =>
        \A i \in 1..Len(heads_queue) :
            /\ heads_queue[i].type = "Fetched" => heads_queue[i].head = notif.head
            /\ heads_queue[i].type = "Refetch" =>
                heads_queue[i].number <= notif.head.number

\* C7 witness: a drain that queued refetches has ended and the stream is awaited.
DepthFirstWitness ==
    /\ pc = "await_stream"
    /\ notif.any
    /\ \E b \in block_store : b \notin notif.store /\ b # notif.head

\* C8. Fork scenario: the chain is stored up to N+3 and a head arrives at N with
\* another hash than the stored block N and the stored block N-1 as parent; when
\* the queue has drained the highest stored number is >= N, the blocks below N
\* are the same, and from N on only blocks of the new branch are stored.
ForkScenario ==
    \A N \in 1..MaxHeight :
        (/\ pc = "await_stream"
         /\ notif.any
         /\ notif.head.number = N
         /\ notif.store # {}
         /\ Max(Numbers(notif.store) \cup {0}) = N + 3
         /\ \E b \in notif.store : b.number = N /\ b.hash # notif.head.hash
         /\ \E p \in notif.store : p.number = N - 1 /\ p.hash = notif.head.parent_hash)
        =>
        /\ block_store # {}
        /\ Max(Numbers(block_store) \cup {0}) >= N
        /\ {b \in block_store : b.number < N} = {b \in notif.store : b.number < N}
        /\ \A b \in notif.store : b.number >= N => b \notin block_store
        /\ \A b \in block_store : b.number >= N => AncestorAt(b.hash, N) = notif.head.hash

\* C8 witness: the scenario ran and its drain has ended.
ForkScenarioWitness ==
    /\ pc = "await_stream"
    /\ notif.any
    /\ notif.head.number >= 1
    /\ Max(Numbers(notif.store) \cup {0}) = notif.head.number + 3
    /\ \E b \in notif.store : b.number = notif.head.number /\ b.hash # notif.head.hash
    /\ \E p \in notif.store : p.hash = notif.head.parent_hash
    /\ notif.head \in block_store

\* C9. Tip-only recomputation: after an Extension appended a block, on_new_head
\* has run for it exactly if the node's latest block hash, read after the
\* append, is the block's hash.
TipOnly ==
    last_step.kind \in {"extend", "panic_burn_sums"} =>
        /\ last_step.head \in block_store
        /\ last_step.on_new_head <=> (last_step.latest = last_step.head.hash)

\* C9 witness: a block was appended behind the node's tip and nothing was run.
TipOnlyWitness ==
    /\ last_step.kind = "extend"
    /\ NumberOf(last_step.latest) > last_step.head.number
    /\ ~last_step.on_new_head

\* C10. Rollback integration: a rollback of the Block Store to n also deletes
\* every burn sum record whose last included block number is >= n, so that after
\* a Gap or Fork step no record has a last included number the step removed.
RollbackDeletesSums ==
    last_step.kind \in {"gap", "fork"} =>
        \A r \in burn_sums : r.last_included_block_number < last_step.low

----------------------------------------------------------------------------
\* Properties of the aggregation.

\* A step in which on_new_block ran for the block just appended.
AggregationStep ==
    /\ SyncHeadStep
    /\ last_step'.kind \in {"extend", "panic_burn_sums"}
    /\ last_step'.on_new_head

\* The record's last included block is the block stored at its number.
ValidBase(store, r) ==
    \E b \in store :
        /\ b.number = r.last_included_block_number
        /\ b.hash = r.last_included_block_hash

\* The records a pass may produce for the block when it uses no stale record:
\* from a retained record whose hash matches the store, or from scratch.
FallbackRecords(store, sums, block, tf) ==
    calc_new_burn_sum_record_from_scratch(store, block, tf)
    \cup UNION {calc_new_burn_sum_record_from_last(store, v, block, tf) :
                   v \in {r \in sums : r.time_frame = tf /\ ValidBase(store, r)}}

\* C11. Stale detection: when the last record of a time frame does not carry
\* the hash stored at its last included number, the pass does not use it: it
\* completes, and the record it writes for the block is computed from a retained
\* record whose hash matches the store, or from scratch.
StaleDetection ==
    [][AggregationStep =>
        \A tf \in TimeFrames :
        \A last \in last_burn_sum(burn_sums, tf) :
            ~ValidBase(block_store', last) =>
                /\ last_step'.kind = "extend"
                /\ \E r \in burn_sums' :
                    /\ r.time_frame = tf
                    /\ r.last_included_block_hash = last_step'.head.hash
                    /\ r \in FallbackRecords(block_store', burn_sums,
                                             last_step'.head, tf)]_vars

\* The blocks stored when the block numbered n was appended.
StoreUpTo(store, n) == {b \in store : b.number <= n}

\* The first block of the time frame's window ending in the block: the origin
\* for a growing time frame, the lowest stored number no older than the
\* duration for a limited one.
WindowFirst(store, block, tf) ==
    IF tf \in GrowingTimeFrames THEN NumberOf(1)
    ELSE Min({b.number : b \in {x \in store :
                TimestampOf(x.hash) >= TimestampOf(block.hash) - duration(tf)}})

BurnBetween(store, first, last) ==
    SumBurn({b \in store : first <= b.number /\ b.number <= last})

\* The record of the time frame that is exact for the block.
ExactRecord(store, block, tf) ==
    [time_frame |-> tf,
     first_included_block_number |-> WindowFirst(store, block, tf),
     last_included_block_number |-> block.number,
     last_included_block_hash |-> block.hash,
     sum_wei |-> BurnBetween(store, WindowFirst(store, block, tf), block.number),
     timestamp |-> TimestampOf(block.hash)]

WindowExact ==
    \A r \in burn_sums :
        r.time_frame \in LimitedTimeFrames =>
            r.sum_wei = BurnBetween(block_store, r.first_included_block_number,
                                    r.last_included_block_number)

\* C13 witness: two incremental passes in a row have each dropped a block from
\* the window of a limited time frame.
WindowExactWitness ==
    \E r \in burn_sums, q \in burn_sums :
        /\ r.time_frame = q.time_frame
        /\ r.time_frame \in LimitedTimeFrames
        /\ q.last_included_block_number + 1 = r.last_included_block_number
        /\ q.first_included_block_number + 1 = r.first_included_block_number
        /\ q.first_included_block_number >= 1

GrowingNeverExpires ==
    [][(AggregationStep /\ last_step'.kind = "extend") =>
        \A tf \in GrowingTimeFrames :
        \A last \in last_burn_sum(burn_sums, tf) :
        \E r \in burn_sums' :
            /\ r.time_frame = tf
            /\ r.last_included_block_number = last_step'.head.number
            /\ r.last_included_block_hash = last_step'.head.hash
            /\ r.sum_wei = last.sum_wei
                    + BurnBetween(block_store', last.last_included_block_number + 1,
                                  last_step'.head.number)
            /\ r.first_included_block_number = last.first_included_block_number]_vars

\* C15 witness: a pass has added the block just appended to the sum of a
\* growing time frame's last record and kept its first included number.
GrowingNeverExpiresWitness ==
    /\ last_step.kind = "extend"
    /\ last_step.on_new_head
    /\ \E r \in burn_sums, q \in burn_sums :
        /\ r.time_frame = "since_burn" /\ q.time_frame = "since_burn"
        /\ r.last_included_block_hash = last_step.head.hash
        /\ q.last_included_block_number + 1 = r.last_included_block_number
        /\ r.sum_wei = q.sum_wei + BurnOf(last_step.head.hash)
        /\ r.first_included_block_number = q.first_included_block_number

\* C16. Window regression is fatal: when, in a pass, the first included number
\* computed for a limited time frame is below the one of the time frame's last
\* record, the pass panics and the stored burn sums are left as they were.
WindowRegressionFatal ==
    [][AggregationStep =>
        \A tf \in LimitedTimeFrames :
        \A last \in last_burn_sum(burn_sums, tf) :
            WindowFirst(block_store', last_step'.head, tf)
                    < last.first_included_block_number =>
                /\ last_step'.kind = "panic_burn_sums"
                /\ pc' = "panicked"
                /\ burn_sums' = burn_sums]_vars

\* C16 witness: a pass for a block above the last record's panicked on a window
\* that starts before the last record's.
WindowRegressionFatalWitness ==
    /\ pc = "panicked"
    /\ last_step.kind = "panic_burn_sums"
    /\ \E tf \in LimitedTimeFrames :
       \E last \in last_burn_sum(burn_sums, tf) :
        /\ last.last_included_block_number < last_step.head.number
        /\ WindowFirst(block_store, last_step.head, tf)
                < last.first_included_block_number

\* The node has no block for the item at the front of the queue: none at the
\* number of a Refetch, or none with the hash of a head to append.
NodeHasNoBlock(kind) == kind \in {"panic_refetch", "panic_block_missing"}

\* C17. Missing block is never skipped: when the node returns no block for the
\* number of a Refetch or for the hash of a head to append, the run ends there;
\* no block is appended, no further item is taken from the queue, and a block
\* is only ever appended as the node returned it for the head's hash.
MissingBlockNeverSkipped ==
    [][/\ (pc = "drain" /\ heads_queue # <<>> /\ NodeHasNoBlock(last_step'.kind)) =>
            /\ pc' = "panicked"
            /\ block_store' = block_store
       /\ NodeHasNoBlock(last_step.kind) => vars' = vars
       /\ \A b \in block_store' \ block_store :
            /\ b = BlockOf(last_step'.head.hash)
            /\ last_step'.kind \in {"extend", "panic_burn_sums"}]_vars

\* C17 witness: the run ended on a Refetch the node had no block for, with
\* items left in the queue.
MissingBlockNeverSkippedWitness ==
    /\ pc = "panicked"
    /\ last_step.kind = "panic_refetch"
    /\ heads_queue # <<>>
    /\ block_store # {}

\* C18. Gap-fill bounds: after every Gap step the lower bound is at most the
\* head's number, so the Refetch items queued run from the lower bound up to
\* the head's number and are at least one.
GapFillBounds ==
    last_step.kind = "gap" =>
        /\ last_step.low <= last_step.head.number
        /\ Len(heads_queue) >= last_step.head.number - last_step.low + 1
        /\ Head(heads_queue) = Refetch(last_step.low)
        /\ heads_queue[last_step.head.number - last_step.low + 1]
                = Refetch(last_step.head.number)

\* C18 witness: a gap at a head two or more above the highest stored block
\* queued the numbers from that block's up to the head's.
GapFillBoundsWitness ==
    /\ last_step.kind = "gap"
    /\ last_step.low + 2 <= last_step.head.number
    /\ pc = "drain"
    /\ \A b \in block_store : b.number < last_step.low

\* C19. Empty history: when a head is classified Gap while the store holds no
\* block, the run goes on: the step is not a panic, the store stays as it was
\* and no Refetch item is queued.
EmptyHistoryNoData ==
    [][(SyncHeadStep /\ block_store = {}
            /\ ~ParentKnown(block_store, last_step'.head)) =>
        /\ pc' # "panicked"
        /\ block_store' = block_store
        /\ \A i \in 1..Len(heads_queue') : heads_queue'[i].type # "Refetch"]_vars

\* C20. Restart resume: started with highest stored number L and node latest
\* number T, the run comes to await a stream that delivers the heads of the
\* blocks L+1, ..., T-1 (from the origin block on when nothing is stored), in
\* ascending order and each once, before any live head.
RestartResume ==
    [][/\ pc = "start" =>
            /\ pc' = "await_stream"
            /\ heads_stream'.started
            /\ heads_stream'.next = IF block_store = {} THEN NumberOf(1)
                                    ELSE Max(Numbers(block_store)) + 1
            /\ heads_stream'.last = NumberOf(heads_stream'.latest) - 1
       /\ (pc = "await_stream" /\ pc' = "drain"
                /\ heads_stream.next <= heads_stream.last) =>
            /\ heads_queue'[Len(heads_queue')].head.number = heads_stream.next
            /\ heads_stream'.next = heads_stream.next + 1]_vars

----------------------------------------------------------------------------
\* Properties of the pure functions.

Applied(fns) == call.done /\ call.input.fn \in fns

\* C22. Checked wei/gwei addition and subtraction: Add and Sub of GweiNewtype
\* (u64) and of WeiNewtype (i128) give the exact sum or difference when it fits
\* the width and panic otherwise; they never give a wrapped result.
CheckedArithmetic ==
    Applied({"GweiNewtype_add", "GweiNewtype_sub", "WeiNewtype_add",
             "WeiNewtype_sub"}) =>
        LET exact == IF call.input.fn \in {"GweiNewtype_add", "WeiNewtype_add"}
                     THEN call.input.lhs + call.input.rhs
                     ELSE call.input.lhs - call.input.rhs
            fits == IF call.input.fn \in {"GweiNewtype_add", "GweiNewtype_sub"}
                    THEN 0 <= exact /\ exact < 2 ^ U64Bits
                    ELSE 0 - 2 ^ (I128Bits - 1) <= exact
                         /\ exact < 2 ^ (I128Bits - 1)
        IN IF fits THEN call.out = Ok(exact) ELSE call.out = Panicked

\* C22 witness: a gwei sum one above the largest u64 panicked.
CheckedArithmeticWitness ==
    /\ Applied({"GweiNewtype_add"})
    /\ call.input.lhs + call.input.rhs = 2 ^ U64Bits
    /\ call.input.lhs > 0 /\ call.input.rhs > 0
    /\ call.out = Panicked

\* C23. Unit conversion never wraps: GweiNewtype::from_eth and
\* WeiNewtype::from_eth give eth times the unit when the product fits the width
\* and fail otherwise, never a product reduced modulo the width.
ConversionNeverWraps ==
    Applied({"GweiNewtype_from_eth", "WeiNewtype_from_eth"}) =>
        LET gwei == call.input.fn = "GweiNewtype_from_eth"
            exact == call.input.eth * (IF gwei THEN GWEI_PER_ETH ELSE WEI_PER_ETH)
            fits == IF gwei THEN 0 <= exact /\ exact < 2 ^ U64Bits
                    ELSE 0 - 2 ^ (I128Bits - 1) <= exact
                         /\ exact < 2 ^ (I128Bits - 1)
        IN IF fits THEN call.out = Ok(exact) ELSE call.out = Panicked

\* C24. Time frame keys are stable and distinct: the db key of a limited time
\* frame is its Display text, from_str of the key gives the variant back, and no
\* two time frames, All included, have the same db key.
DbKeysStableAndDistinct ==
    /\ Applied({"LimitedTimeFrame_to_db_key"}) =>
        /\ call.out.value = LimitedTimeFrame_fmt(call.input.self)
        /\ LimitedTimeFrame_from_str(call.out.value) = Ok(call.input.self)
    /\ Applied({"TimeFrame_to_db_key"}) =>
        \A other \in TimeFrame \ {call.input.time_frame} :
            TimeFrame_to_db_key(other) # call.out.value

\* C25. BlockRange: BlockRange::new(a, b) panics when a > b; otherwise iterating
\* it yields a, a+1, ..., b in ascending order, each once, and then ends.
BlockRangeYields ==
    Applied({"block_range_iterable"}) =>
        LET a == call.input.greater_than_or_equal
            b == call.input.less_than_or_equal
        IN IF a > b THEN call.out = Panicked
           ELSE /\ call.out.status = "ok"
                /\ Len(call.out.value) = b - a + 1
                /\ \A i \in 1 .. (b - a + 1) : call.out.value[i] = a + i - 1

\* C25 witness: the range of block_range_iterable_test gave 1, 2, 3, 4.
BlockRangeYieldsWitness ==
    /\ Applied({"block_range_iterable"})
    /\ call.input.greater_than_or_equal = 1
    /\ call.input.less_than_or_equal = 4
    /\ call.out = Ok(<<1, 2, 3, 4>>)

\* C26. Closest price: for a non-empty list of prices in ascending order of time
\* find_closest_price returns a price whose distance in time to the target is
\* the least of the list, the older one of two prices at that distance.
ClosestPrice ==
    (Applied({"find_closest_price"}) /\ call.input.prices # <<>>) =>
        LET prices == call.input.prices
            target == call.input.target_minute_rounded
            Distance(price) == IF price.timestamp <= target
                               THEN target - price.timestamp
                               ELSE price.timestamp - target
        IN /\ call.out.status = "ok"
           /\ \E i \in 1 .. Len(prices) : call.out.value = prices[i]
           /\ \A i \in 1 .. Len(prices) :
                /\ Distance(call.out.value) <= Distance(prices[i])
                /\ Distance(call.out.value) = Distance(prices[i]) =>
                       call.out.value.timestamp <= prices[i].timestamp

\* The whole seconds between the i-th price and the target.
WholeSeconds(prices, target, i) ==
    (IF prices[i].timestamp <= target THEN target - prices[i].timestamp
     ELSE prices[i].timestamp - target) \div SubSeconds

\* C26, amended: the distance is counted in whole seconds, fractions of a second
\* dropped: the returned price is one whose whole-second distance to the target
\* is the least of the list, and the oldest of the prices at that distance.
ClosestPriceInWholeSeconds ==
    (Applied({"find_closest_price"}) /\ call.input.prices # <<>>) =>
        LET prices == call.input.prices
            target == call.input.target_minute_rounded
        IN /\ call.out.status = "ok"
           /\ \E i \in 1 .. Len(prices) :
                /\ call.out.value = prices[i]
                /\ \A j \in 1 .. Len(prices) :
                    /\ WholeSeconds(prices, target, i) <= WholeSeconds(prices, target, j)
                    /\ WholeSeconds(prices, target, i) = WholeSeconds(prices, target, j)
                           => i <= j

\* C26 witness: of an older price a second and a half before the target and a
\* newer one a second before or after it, the older one was returned.
ClosestPriceInWholeSecondsWitness ==
    /\ Applied({"find_closest_price"})
    /\ Len(call.input.prices) >= 2
    /\ call.out = Ok(call.input.prices[1])
    /\ call.input.target_minute_rounded - call.input.prices[1].timestamp
           = SubSeconds + 1
    /\ \E j \in 2 .. Len(call.input.prices) :
           WholeSeconds(call.input.prices, call.input.target_minute_rounded, j) = 1

\* C27. Issuance: calc_issuance(balances, deposits) is balances - deposits -
\* INITIAL_DEPOSITS when balances >= deposits + INITIAL_DEPOSITS, and an
\* underflow panic, no value, when balances < deposits + INITIAL_DEPOSITS.
IssuanceExactOrPanic ==
    Applied({"calc_issuance"}) =>
        LET balances == call.input.validator_balances_sum_gwei
            deposits == call.input.deposit_sum_aggregated
        IN IF balances >= deposits + INITIAL_DEPOSITS
           THEN call.out = Ok(balances - deposits - INITIAL_DEPOSITS)
           ELSE call.out = Panicked

\* C27 witness: balances above the deposits but short of the initial deposits
\* on top of them: the second subtraction panicked.
IssuanceExactOrPanicWitness ==
    /\ Applied({"calc_issuance"})
    /\ call.input.validator_balances_sum_gwei > call.input.deposit_sum_aggregated
    /\ call.input.validator_balances_sum_gwei
          < call.input.deposit_sum_aggregated + INITIAL_DEPOSITS
    /\ call.out = Panicked

----------------------------------------------------------------------------
\* Properties of the records a pass writes.

\* A pass that ran to its end for the block just appended.
CompletedPass == AggregationStep /\ last_step'.kind = "extend"

\* C28. Limited-frame expiry arithmetic: an incremental pass for a limited time
\* frame adds the burn of the blocks after the last record up to the current
\* block; when the new first included number is above the last record's, the
\* burn of the blocks from the last record's first to one below the new first is
\* taken off and the record starts at the new first; when it is the same, nothing
\* is taken off and the first stays.
ExpiryArithmetic ==
    [][CompletedPass =>
        \A tf \in LimitedTimeFrames :
        \A last \in last_burn_sum(burn_sums, tf) :
            LET current == last_step'.head
                added == BurnBetween(block_store',
                                     last.last_included_block_number + 1,
                                     current.number)
                new_first == WindowFirst(block_store', current, tf)
            IN \E r \in burn_sums' :
                /\ r.time_frame = tf
                /\ r.last_included_block_hash = current.hash
                /\ new_first > last.first_included_block_number =>
                    /\ r.sum_wei = last.sum_wei + added
                                     - BurnBetween(block_store',
                                                   last.first_included_block_number,
                                                   new_first - 1)
                    /\ r.first_included_block_number = new_first
                /\ new_first = last.first_included_block_number =>
                    /\ r.sum_wei = last.sum_wei + added
                    /\ r.first_included_block_number =
                           last.first_included_block_number]_vars

\* C28 witness: the pass for the block just appended took the record of the
\* block before it as the last one and dropped at least one block from the
\* window.
ExpiryArithmeticWitness ==
    /\ last_step.kind = "extend" /\ last_step.on_new_head
    /\ \E r \in burn_sums, q \in burn_sums :
        /\ r.time_frame = q.time_frame
        /\ r.time_frame \in LimitedTimeFrames
        /\ r.last_included_block_hash = last_step.head.hash
        /\ q.last_included_block_hash = last_step.head.parent_hash
        /\ r.first_included_block_number > q.first_included_block_number
        /\ r.sum_wei = q.sum_wei + BurnOf(last_step.head.hash)
                         - BurnBetween(block_store, q.first_included_block_number,
                                       r.first_included_block_number - 1)

\* C29. Record stamping: every record a pass writes for the current block b,
\* computed from scratch or from a last record, has b's number as last included
\* number, b's hash as last included hash and b's timestamp, and the pass writes
\* one for every time frame.
RecordStamping ==
    [][CompletedPass =>
        LET b == last_step'.head IN
        /\ \A r \in burn_sums' \ burn_sums :
            /\ r.last_included_block_number = b.number
            /\ r.last_included_block_hash = b.hash
            /\ r.timestamp = TimestampOf(b.hash)
        /\ \A tf \in TimeFrames : \E r \in burn_sums' :
            /\ r.time_frame = tf
            /\ r.last_included_block_number = b.number
            /\ r.last_included_block_hash = b.hash
            /\ r.timestamp = TimestampOf(b.hash)]_vars

\* C29 witness: the records of the block just appended are there for every time
\* frame, those of the block before it too: the first were computed from a last
\* record, and the store began with records computed from scratch.
RecordStampingWitness ==
    /\ last_step.kind = "extend" /\ last_step.on_new_head
    /\ \A tf \in TimeFrames :
        \E r \in burn_sums, q \in burn_sums :
            /\ r.time_frame = tf /\ q.time_frame = tf
            /\ r.last_included_block_hash = last_step.head.hash
            /\ r.timestamp = TimestampOf(last_step.head.hash)
            /\ q.last_included_block_hash = last_step.head.parent_hash
            /\ q.timestamp = TimestampOf(last_step.head.parent_hash)

----------------------------------------------------------------------------
\* Properties of the node client.

\* C30. Response correlation in the node client: under any interleaving of the
\* callers with handle_messages a response reaches only the caller that sent
\* the request with its id, every call returns the response to its own request,
\* no waiting caller's slot is overwritten or dropped by a call that takes the
\* same id, and an id is in use for as long as its handler is in the map.
ResponseCorrelation ==
    /\ \A c \in 1 .. Callers :
        /\ callers[c].rx = "full" => callers[c].response = Request(c, callers[c].seq)
        /\ (callers[c].pc = "idle" /\ callers[c].seq > 0) =>
               callers[c].returned = Request(c, callers[c].seq)
        /\ callers[c].rx # "cancelled"
    /\ \A e \in message_rx_map : e.id \in id_pool.in_use_ids

----------------------------------------------------------------------------
\* Properties of on_new_block.

RecordsOf(sums, block) == {r \in sums : r.last_included_block_hash = block.hash}

\* The seven records of the running pass are in the store.
PassStored ==
    /\ Cardinality(pass.records) = Cardinality(TimeFrames)
    /\ pass.records \subseteq burn_sums

\* C21. Write-then-publish ordering: in a pass all seven records are calculated
\* before any is persisted, they are persisted in one step of the store, old
\* records are deleted after that, and BurnSums and then BurnRates are published
\* only when the records are stored and the old ones deleted.
WriteThenPublish ==
    [][/\ RecordsOf(burn_sums', pass'.block) # RecordsOf(burn_sums, pass'.block) =>
            /\ RecordsOf(burn_sums, pass.block) = {}
            /\ Cardinality(pass.records) = Cardinality(TimeFrames)
            /\ burn_sums' = burn_sums \cup pass.records
            /\ cache' = cache
       /\ burn_sums \ burn_sums' # {} =>
            /\ PassStored
            /\ burn_sums' \subseteq burn_sums
            /\ cache' = cache
       /\ cache' # cache =>
            /\ PassStored
            /\ \A r \in burn_sums :
                  r.last_included_block_number > pass.block.number - KeepSums
            /\ burn_sums' = burn_sums
            /\ cache'.burn_sums = Some(BurnSums(pass.records))
            /\ cache'.burn_rates # cache.burn_rates =>
                  cache.burn_sums = Some(BurnSums(pass.records))]_vars

\* C21 witness: old records were deleted, then the sums of the pass were
\* published; the rates in the cache are not yet those of the pass.
WriteThenPublishWitness ==
    /\ pass.pc = "published_sums"
    /\ pass.deleted > 0
    /\ PassStored
    /\ cache.burn_sums = Some(BurnSums(pass.records))
    /\ cache.burn_rates # None
    /\ cache.burn_rates # Some(BurnRates(BurnSums(pass.records)))

----------------------------------------------------------------------------
\* Properties of the IdPool.

\* C31. Id pool exclusivity: after any sequence of get_next_id and free_id calls
\* the id get_next_id returns was not in use when it was called and is in use
\* after it, with the ids that were; free_id takes the given id out of the ids
\* in use and leaves the others.
IdPoolExclusive ==
    [][/\ (call'.input.fn = "get_next_id" /\ call'.out # Panicked) =>
            /\ call'.out.value \notin id_pool.in_use_ids
            /\ id_pool'.in_use_ids = id_pool.in_use_ids \cup {call'.out.value}
       /\ call'.input.fn = "free_id" =>
            /\ id_pool'.in_use_ids = id_pool.in_use_ids \ {call'.input.id}
            /\ \A id \in id_pool.in_use_ids :
                  id # call'.input.id => id \in id_pool'.in_use_ids]_vars

\* C31 witness: with ids in use from next_id on, and a lower id freed, the pool
\* went past the ids in use and round to the freed one.
IdPoolExclusiveWitness ==
    /\ call.input.fn = "get_next_id"
    /\ call.out # Panicked
    /\ call.out.value < call.input.pool.next_id
    /\ call.input.pool.in_use_ids # {}
    /\ call.out.value \in id_pool.in_use_ids
    /\ call.out.value \notin call.input.pool.in_use_ids

\* C39. Id pool availability: whenever an id is not in use, get_next_id returns
\* an id that is not in use, without overflow of next_id and without the
\* exhaustion failure, after any sequence of get_next_id and free_id calls.
IdPoolAvailable ==
    [][(call'.input.fn = "get_next_id" /\ id_pool.in_use_ids # Ids) =>
            /\ call'.out # Panicked
            /\ call'.out.value \in Ids \ id_pool.in_use_ids]_vars

----------------------------------------------------------------------------
\* Properties of a drain against a node at rest.

\* The head is a block of the chain the node is on.
HeadOnChain(latest, head) ==
    /\ head.number <= NumberOf(latest)
    /\ AncestorAt(latest, head.number) = head.hash

\* A drain begins: the store is not empty, a stored block is an ancestor of the
\* notified head, and the head is on the node's chain.
DrainBegins ==
    /\ pc = "drain"
    /\ last_step = NoStep
    /\ heads_queue = <<Fetched(notif.head)>>
    /\ notif.store # {}
    /\ HeadOnChain(node_chain, notif.head)
    /\ \E b \in notif.store :
        /\ b.number < notif.head.number
        /\ AncestorAt(notif.head.hash, b.number) = b.hash

\* C32. Drain termination: a drain that begins with a non-empty contiguous
\* store, against a node whose chain stays as it is and shares a stored block
\* as an ancestor of the notified head, comes to the empty queue and back to
\* the stream after finitely many sync_head steps, unless no price is at hand
\* for a block.
DrainTerminates ==
    DrainBegins ~> (pc = "await_stream" \/ last_step.kind = "panic_no_price")

\* A drain has ended without a failure: the stream is awaited again.
DrainCompleted == pc = "await_stream" /\ notif.any

\* The lowest number at which the drain took a block out of the store; the
\* head's number when it took none.
RollbackPoint ==
    Min({b.number : b \in notif.store \ block_store} \cup {notif.head.number})

\* The highest stored block is the notified head, and from the rollback point
\* up to the head's number the store holds the blocks of the node's chain.
ConvergedToHead ==
    /\ block_store # {}
    /\ \A b \in block_store : b.number <= notif.head.number
    /\ notif.head \in block_store
    /\ \A number \in RollbackPoint .. notif.head.number :
        /\ number <= NumberOf(node_chain)
        /\ BlockOf(AncestorAt(node_chain, number)) \in block_store

\* C33. Convergence to the notified head: when the drain for a head with number
\* n and hash h has ended without failure against a node whose chain stayed as
\* it was, the highest stored block has number n and hash h, and the store
\* holds the node's block at every number from the rollback point up to n.
ConvergesToHead == DrainCompleted => ConvergedToHead

\* C33, amended: the same for a head that is a block of the node's chain.
ConvergesToHeadOnChain ==
    (DrainCompleted /\ HeadOnChain(node_chain, notif.head)) => ConvergedToHead

\* C33 witness: the head was below the highest stored block and on another
\* branch; the drain rolled back below the head's number and refetched up to
\* it.
ConvergesToHeadOnChainWitness ==
    /\ DrainCompleted
    /\ HeadOnChain(node_chain, notif.head)
    /\ notif.head.number < Max(Numbers(notif.store) \cup {0})
    /\ RollbackPoint < notif.head.number
    /\ notif.head \in block_store

----------------------------------------------------------------------------
\* Properties of the queue during a recovery.

\* The block number a queue item stands for.
ItemNumber(item) == IF item.type = "Fetched" THEN item.head.number ELSE item.number

\* A point of a drain after its first Gap or Fork step, with items left: a
\* drain begins with one item, so that items are left after an Extension only
\* when a Gap step has queued them.
InRecovery ==
    /\ pc = "drain"
    /\ last_step.kind \in {"gap", "fork", "extend"}
    /\ heads_queue # <<>>

\* The numbers of the queue go up by one from item to item and end at the
\* number of the notification being drained.
ConsecutiveUpToHead ==
    /\ \A i \in 1 .. (Len(heads_queue) - 1) :
        ItemNumber(heads_queue[i + 1]) = ItemNumber(heads_queue[i]) + 1
    /\ ItemNumber(heads_queue[Len(heads_queue)]) = notif.head.number

\* C34. Recovery queue shape: at every point of a drain after the first Gap or
\* Fork step the queue holds consecutive ascending block numbers without
\* duplicates, its last item has the number of the notification being drained,
\* and its front item's number is the highest stored block number plus one.
RecoveryQueueShape ==
    InRecovery =>
        /\ ConsecutiveUpToHead
        /\ block_store # {}
        /\ ItemNumber(Head(heads_queue)) = Max(Numbers(block_store)) + 1

\* C34, amended: the front item's number is the highest stored number plus one
\* while a block is stored; when the rollback of a Gap step has emptied the
\* store, it is the number rolled back to.
RecoveryQueueShapeStored ==
    InRecovery =>
        /\ ConsecutiveUpToHead
        /\ block_store # {} =>
            ItemNumber(Head(heads_queue)) = Max(Numbers(block_store)) + 1
        /\ block_store = {} =>
            /\ last_step.kind = "gap"
            /\ ItemNumber(Head(heads_queue)) = last_step.low

\* C34 witness: a Gap step inside a recovery queued its numbers in front of the
\* ones the first Gap step had queued.
RecoveryQueueShapeStoredWitness ==
    /\ InRecovery
    /\ last_step.kind = "gap"
    /\ last_step.head.number < notif.head.number
    /\ Len(heads_queue) >= 3
    /\ block_store # {}
    /\ heads_queue[1].type = "Refetch"
    /\ ItemNumber(Head(heads_queue)) = Max(Numbers(block_store)) + 1

----------------------------------------------------------------------------
\* Properties of the aggregation after rollbacks.

\* C35. Aggregation base is always behind the current block: whenever a tip
\* aggregation runs for a block b, after any head processing, the last record r
\* of every time frame has r.last_included_block_number < b.number, so that the
\* range of the new burn, from r.last_included_block_number + 1 to b.number, is
\* not inverted and BlockRange::new does not fail.
AggregationBaseBehind ==
    [][AggregationStep =>
        \A tf \in TimeFrames :
        \A r \in last_burn_sum(burn_sums, tf) :
            /\ r.last_included_block_number < last_step'.head.number
            /\ BlockRange_new(r.last_included_block_number + 1,
                              last_step'.head.number) # None]_vars

----------------------------------------------------------------------------
\* Properties of a head delivered again.

\* The notified head is the block that was stored as the highest one.
Redelivered ==
    /\ notif.any
    /\ notif.store # {}
    /\ notif.head \in notif.store
    /\ notif.head.number = Max(Numbers(notif.store) \cup {0})

\* C36. Re-delivered head is idempotent: when the head of the highest stored
\* block (same number, hash and parent hash) is delivered and its drain has
\* ended, the stored blocks are the ones stored before the notification, and no
\* lower block is gone.
RedeliveredHeadIdempotent ==
    (pc = "await_stream" /\ Redelivered) =>
        /\ block_store = notif.store
        /\ \A b \in notif.store : b.number < notif.head.number => b \in block_store

\* C36 witness: the drain of a re-delivered head has ended, with blocks below
\* the head in the store.
RedeliveredHeadIdempotentWitness ==
    /\ pc = "await_stream"
    /\ Redelivered
    /\ notif.head.number >= 2
    /\ notif.head \in block_store
    /\ Cardinality(block_store) = notif.head.number + 1

----------------------------------------------------------------------------
\* Properties of the start at the tip.

\* C37. Startup at the tip: when the highest stored block L and the node's
\* latest block T at startup have L + 1 > T - 1, stream_heads_from gives no
\* historic head and goes on with the live heads without failing.
StartupAtTip ==
    [][(/\ pc = "start"
        /\ block_store # {}
        /\ Max(Numbers(block_store)) + 1 > NumberOf(heads_stream'.latest) - 1) =>
            /\ pc' = "await_stream"
            /\ heads_stream'.started
            /\ heads_stream'.next > heads_stream'.last]_vars

----------------------------------------------------------------------------
\* Properties of the prune step.

\* C38. Pruning keeps the newest record: after the prune step of a pass for
\* block b the record just written for b is there for every time frame, and
\* the last record of every time frame, which the next pass looks up, is the
\* one with b's number as last included block number.
PruneKeepsNewest ==
    pass.pc \in {"pruned", "published_sums"} =>
        \A tf \in TimeFrames :
            /\ \E r \in pass.records : r.time_frame = tf /\ r \in burn_sums
            /\ \A r \in last_burn_sum(burn_sums, tf) :
                /\ r \in pass.records
                /\ r.last_included_block_number = pass.block.number
                /\ r.last_included_block_hash = pass.block.hash
            /\ last_burn_sum(burn_sums, tf) # None

\* C38 witness: the prune step has deleted records of an earlier block and the
\* records of the pass are the last ones.
PruneKeepsNewestWitness ==
    /\ pass.pc = "pruned"
    /\ pass.deleted > 0
    /\ pass.block.number >= KeepSums
    /\ \A tf \in TimeFrames :
        \E r \in last_burn_sum(burn_sums, tf) :
            r.last_included_block_hash = pass.block.hash

----------------------------------------------------------------------------
\* Properties of eth_supply::update.

\* C40. One supply row per update: a call of update that succeeds has inserted
\* exactly one row into eth_supply, and has done so before the value of the
\* supply-since-merge cache is written.
OneSupplyRowPerUpdate ==
    [][(eth_supply.pc = "stored_again" /\ eth_supply'.pc = "idle") =>
            /\ Len(eth_supply.table) = eth_supply.before + 1
            /\ eth_supply'.table = eth_supply.table
            /\ eth_supply'.since_merge # None]_vars

====
